---- MODULE Spec2Model ----
(***************************************************************************)
(* Analysis orchestration and caching engine of the resume analyser        *)
(* (src/backend/llm_analyzer.py): the retrying inference call, the reply   *)
(* normaliser, the two-tier result cache, the token ledger and the public  *)
(* orchestrator operations.                                                *)
(*                                                                         *)
(* Texts (resume text, prompts, replies, file contents) are sequences of   *)
(* lexemes: a lexeme stands for one character or one fixed character run   *)
(* (a code fence, "json", "null", a word).  Python values are records with  *)
(* the same five fields, so that any two values can be compared.           *)
(***************************************************************************)
EXTENDS Integers, Sequences, FiniteSets, TLC

VARIABLES cache, disk, token_counter, max_retries, last, input

vars == <<cache, disk, token_counter, max_retries, last, input>>

(***************************************************************************)
(* Bounds of the model.                                                    *)
(***************************************************************************)
MaxReplyLen == 3
MaxTextLen == 2
MaxRetriesBound == 3
MaxRequests == 2
MaxEntries == 2
MaxOps == 2
MaxItems == 2
ScoreMargin == 50
MaxKeywords == 16

(***************************************************************************)
(* Lexemes.                                                                *)
(***************************************************************************)
Q == "\""
EQ == "\\\""
LB == "{"
RB == "}"
LK == "["
RK == "]"
COLON == ":"
COMMA == ","
WS == " "
MINUS == "-"
\* the three-backquote code fence marker
FENCE == "FENCE"
JSONWORD == "json"

Digits == {"0", "1", "2", "3", "4", "5", "6", "7", "8", "9"}

DigitVal(t) ==
    CASE t = "0" -> 0 [] t = "1" -> 1 [] t = "2" -> 2 [] t = "3" -> 3
      [] t = "4" -> 4 [] t = "5" -> 5 [] t = "6" -> 6 [] t = "7" -> 7
      [] t = "8" -> 8 [] t = "9" -> 9

DigitTok(d) ==
    CASE d = 0 -> "0" [] d = 1 -> "1" [] d = 2 -> "2" [] d = 3 -> "3"
      [] d = 4 -> "4" [] d = 5 -> "5" [] d = 6 -> "6" [] d = 7 -> "7"
      [] d = 8 -> "8" [] d = 9 -> "9"

(***************************************************************************)
(* Python values.                                                          *)
(***************************************************************************)
V(tag, n, s, kv, el) == [tag |-> tag, n |-> n, s |-> s, kv |-> kv, el |-> el]

None == V("none", 0, <<>>, <<>>, <<>>)
MkBool(b) == V("bool", IF b THEN 1 ELSE 0, <<>>, <<>>, <<>>)
MkInt(n) == V("int", n, <<>>, <<>>, <<>>)
MkStr(s) == V("str", 0, s, <<>>, <<>>)
MkList(el) == V("list", 0, <<>>, <<>>, el)
MkDict(kv) == V("dict", 0, <<>>, kv, <<>>)
\* a float: n is ten times the value when it is finite, s names inf or nan
MkFloat(tenths) == V("float", tenths, <<>>, <<>>, <<>>)
NonFinite(name) == V("float", 0, <<name>>, <<>>, <<>>)
Pair(k, v) == [k |-> k, v |-> v]

IsDict(v) == v.tag = "dict"
IsList(v) == v.tag = "list"
IsStr(v) == v.tag = "str"

\* bool(v): Python truthiness
Truthy(v) ==
    CASE v.tag = "none" -> FALSE
      [] v.tag = "bool" -> v.n = 1
      [] v.tag = "int" -> v.n # 0
      [] v.tag = "str" -> v.s # <<>>
      [] v.tag = "list" -> v.el # <<>>
      [] v.tag = "dict" -> v.kv # <<>>

Keys(d) == {d.kv[i].k : i \in DOMAIN d.kv}
HasKey(d, k) == k \in Keys(d)

\* d.get(k, default)
DictGet(d, k, default) ==
    IF HasKey(d, k)
    THEN d.kv[CHOOSE i \in DOMAIN d.kv : d.kv[i].k = k].v
    ELSE default

\* d[k] = v on the pair list: an existing key keeps its place
PutKv(kv, k, v) ==
    IF \E i \in DOMAIN kv : kv[i].k = k
    THEN [i \in DOMAIN kv |-> IF kv[i].k = k THEN Pair(k, v) ELSE kv[i]]
    ELSE Append(kv, Pair(k, v))

DictPut(d, k, v) == MkDict(PutKv(d.kv, k, v))

\* needle in haystack, both texts (str.__contains__)
SubText(needle, hay) ==
    \E i \in 0..Len(hay) :
        /\ i + Len(needle) <= Len(hay)
        /\ \A j \in 1..Len(needle) : hay[i + j] = needle[j]

(***************************************************************************)
(* json.loads on a text: the standard decoder restricted to objects,       *)
(* arrays, strings, integers, true, false and null.  A result is           *)
(* [ok, v, i]: whether a value was decoded, the value, and the index of    *)
(* the first lexeme after it.                                              *)
(***************************************************************************)
Fail == [ok |-> FALSE, v |-> None, i |-> 0]
Got(v, i) == [ok |-> TRUE, v |-> v, i |-> i]

RECURSIVE SkipWs(_, _)
SkipWs(s, i) == IF i <= Len(s) /\ s[i] = WS THEN SkipWs(s, i + 1) ELSE i

\* the digits s[i..] of an integer whose value so far is acc
RECURSIVE ScanDigits(_, _, _)
ScanDigits(s, i, acc) ==
    IF i <= Len(s) /\ s[i] \in Digits
    THEN ScanDigits(s, i + 1, 10 * acc + DigitVal(s[i]))
    ELSE Got(MkInt(acc), i)

\* -?(0|[1-9][0-9]*) at s[i]
ScanNumber(s, i) ==
    LET neg == s[i] = MINUS
        j == IF neg THEN i + 1 ELSE i
    IN  IF j > Len(s) \/ s[j] \notin Digits THEN Fail
        ELSE LET r == IF s[j] = "0" THEN Got(MkInt(0), j + 1)
                      ELSE ScanDigits(s, j, 0)
             IN  IF neg THEN Got(MkInt(0 - r.v.n), r.i) ELSE r

\* the body of a string literal after its opening quote, acc its text so far
RECURSIVE ScanString(_, _, _)
ScanString(s, i, acc) ==
    IF i > Len(s) THEN Fail
    ELSE IF s[i] = Q THEN Got(MkStr(acc), i + 1)
    ELSE IF s[i] = EQ THEN ScanString(s, i + 1, Append(acc, Q))
    ELSE ScanString(s, i + 1, Append(acc, s[i]))

RECURSIVE ScanValue(_, _), ScanMembers(_, _, _), ScanElements(_, _, _)
\* one member "key": value at s[i] (after skipping blanks), then , or }
ScanMembers(s, i, acc) ==
    LET Close(kv, e) ==
            IF e > Len(s) THEN Fail
            ELSE IF s[e] = RB THEN Got(MkDict(kv), e + 1)
            ELSE IF s[e] = COMMA THEN ScanMembers(s, e + 1, kv)
            ELSE Fail
        Member(key, val) ==
            IF ~val.ok THEN Fail
            ELSE Close(PutKv(acc, key.v.s, val.v), SkipWs(s, val.i))
        Colon(key, c) ==
            IF c > Len(s) \/ s[c] # COLON THEN Fail
            ELSE Member(key, ScanValue(s, c + 1))
        Key(key) == IF ~key.ok THEN Fail ELSE Colon(key, SkipWs(s, key.i))
        Open(j) == IF j > Len(s) \/ s[j] # Q THEN Fail ELSE Key(ScanString(s, j + 1, <<>>))
    IN  Open(SkipWs(s, i))

\* one element at s[i], then , or ]
ScanElements(s, i, acc) ==
    LET Close(el, e) ==
            IF e > Len(s) THEN Fail
            ELSE IF s[e] = RK THEN Got(MkList(el), e + 1)
            ELSE IF s[e] = COMMA THEN ScanElements(s, e + 1, el)
            ELSE Fail
        Element(val) ==
            IF ~val.ok THEN Fail ELSE Close(Append(acc, val.v), SkipWs(s, val.i))
    IN  Element(ScanValue(s, i))

ScanValue(s, i) ==
    LET Empty(k, close) == k <= Len(s) /\ s[k] = close
        At(j) ==
            IF j > Len(s) THEN Fail
            ELSE IF s[j] = LB
                 THEN IF Empty(SkipWs(s, j + 1), RB)
                      THEN Got(MkDict(<<>>), SkipWs(s, j + 1) + 1)
                      ELSE ScanMembers(s, j + 1, <<>>)
            ELSE IF s[j] = LK
                 THEN IF Empty(SkipWs(s, j + 1), RK)
                      THEN Got(MkList(<<>>), SkipWs(s, j + 1) + 1)
                      ELSE ScanElements(s, j + 1, <<>>)
            ELSE IF s[j] = Q THEN ScanString(s, j + 1, <<>>)
            ELSE IF s[j] = "null" THEN Got(None, j + 1)
            ELSE IF s[j] = "true" THEN Got(MkBool(TRUE), j + 1)
            ELSE IF s[j] = "false" THEN Got(MkBool(FALSE), j + 1)
            ELSE IF s[j] = MINUS \/ s[j] \in Digits THEN ScanNumber(s, j)
            ELSE Fail
    IN  At(SkipWs(s, i))

\* json.loads(s): [ok, v]; ok = FALSE stands for json.JSONDecodeError
Loads(s) ==
    LET Whole(r) ==
            IF r.ok /\ SkipWs(s, r.i) > Len(s) THEN [ok |-> TRUE, v |-> r.v]
            ELSE [ok |-> FALSE, v |-> None]
    IN  Whole(ScanValue(s, 1))

(***************************************************************************)
(* json.dump(value, f, indent=2): the text written to a cache file.  A     *)
(* line break with its indentation is one blank.                           *)
(***************************************************************************)
RECURSIVE DigitsOf(_)
DigitsOf(n) ==
    IF n < 10 THEN <<DigitTok(n)>> ELSE Append(DigitsOf(n \div 10), DigitTok(n % 10))

RECURSIVE EscapeText(_)
EscapeText(s) ==
    IF s = <<>> THEN <<>>
    ELSE <<IF Head(s) = Q THEN EQ ELSE Head(s)>> \o EscapeText(Tail(s))

DumpStr(s) == <<Q>> \o EscapeText(s) \o <<Q>>

RECURSIVE Dumps(_), DumpMembers(_), DumpElements(_)
DumpMembers(kv) ==
    IF kv = <<>> THEN <<>>
    ELSE DumpStr(Head(kv).k) \o <<COLON, WS>> \o Dumps(Head(kv).v)
         \o (IF Len(kv) > 1 THEN <<COMMA, WS>> \o DumpMembers(Tail(kv)) ELSE <<>>)

DumpElements(el) ==
    IF el = <<>> THEN <<>>
    ELSE Dumps(Head(el))
         \o (IF Len(el) > 1 THEN <<COMMA, WS>> \o DumpElements(Tail(el)) ELSE <<>>)

Dumps(v) ==
    CASE v.tag = "none" -> <<"null">>
      [] v.tag = "bool" -> <<IF v.n = 1 THEN "true" ELSE "false">>
      [] v.tag = "int" -> IF v.n < 0 THEN <<MINUS>> \o DigitsOf(0 - v.n) ELSE DigitsOf(v.n)
      [] v.tag = "str" -> DumpStr(v.s)
      [] v.tag = "list" -> IF v.el = <<>> THEN <<LK, RK>>
                           ELSE <<LK, WS>> \o DumpElements(v.el) \o <<WS, RK>>
      [] v.tag = "dict" -> IF v.kv = <<>> THEN <<LB, RB>>
                           ELSE <<LB, WS>> \o DumpMembers(v.kv) \o <<WS, RB>>

(***************************************************************************)
(* The reply normaliser.                                                   *)
(***************************************************************************)
\* str.strip(): blanks removed at both ends
RECURSIVE LStrip(_)
LStrip(s) == IF s # <<>> /\ Head(s) = WS THEN LStrip(Tail(s)) ELSE s

RECURSIVE RStrip(_)
RStrip(s) ==
    IF s # <<>> /\ s[Len(s)] = WS THEN RStrip(SubSeq(s, 1, Len(s) - 1)) ELSE s

Strip(s) == RStrip(LStrip(s))

\* s.replace("```json", ""): every fence directly followed by the word json
RemoveFenceJson(s) ==
    LET kept == SelectSeq([i \in 1..Len(s) |-> i],
                          LAMBDA i : /\ ~(s[i] = FENCE /\ i < Len(s) /\ s[i + 1] = JSONWORD)
                                     /\ ~(s[i] = JSONWORD /\ i > 1 /\ s[i - 1] = FENCE))
    IN  [k \in 1..Len(kept) |-> s[kept[k]]]

\* s.replace("```", "")
RemoveFence(s) == SelectSeq(s, LAMBDA t : t # FENCE)

Cleaned(response_text) == Strip(RemoveFence(RemoveFenceJson(Strip(response_text))))

\* str.find / str.rfind of one lexeme: 0 stands for -1 (not found)
Find(s, t) == IF \E i \in DOMAIN s : s[i] = t
              THEN CHOOSE i \in DOMAIN s : s[i] = t /\ \A j \in 1..(i - 1) : s[j] # t
              ELSE 0
RFind(s, t) == IF \E i \in DOMAIN s : s[i] = t
               THEN CHOOSE i \in DOMAIN s : s[i] = t /\ \A j \in (i + 1)..Len(s) : s[j] # t
               ELSE 0

\* the slice cleaned[start : end + 1] of step 3
BraceWindow(cleaned) == SubSeq(cleaned, Find(cleaned, LB), RFind(cleaned, RB))

\* re.search(r'\{[\s\S]*\}', cleaned): [found, text]; greedy, leftmost
RegexBraces(cleaned) ==
    LET starts == {i \in DOMAIN cleaned :
                      cleaned[i] = LB /\ \E j \in (i + 1)..Len(cleaned) : cleaned[j] = RB}
    IN  IF starts = {} THEN [found |-> FALSE, text |-> <<>>]
        ELSE LET a == CHOOSE i \in starts : \A k \in starts : i <= k
             IN  [found |-> TRUE, text |-> SubSeq(cleaned, a, RFind(cleaned, RB))]

RawResponse == <<"raw_response">>
ErrorKey == <<"error">>

Sentinel(response_text) == MkDict(<<Pair(RawResponse, MkStr(response_text))>>)

\* ParseResponse with the brace window tried before the direct parse
ParseResponse_WindowFirst(response_text) ==
    LET cleaned == Cleaned(response_text)
        direct == Loads(cleaned)
        window == IF Find(cleaned, LB) # 0 /\ RFind(cleaned, RB) > Find(cleaned, LB)
                  THEN Loads(BraceWindow(cleaned))
                  ELSE [ok |-> FALSE, v |-> None]
    IN  IF window.ok THEN window.v
        ELSE IF direct.ok THEN direct.v
        ELSE Sentinel(response_text)

\* ParseResponse with the cleaned text, not the reply, in the sentinel
ParseResponse_SentinelCleaned(response_text) ==
    LET cleaned == Cleaned(response_text)
        direct == Loads(cleaned)
        window == IF Find(cleaned, LB) # 0 /\ RFind(cleaned, RB) > Find(cleaned, LB)
                  THEN Loads(BraceWindow(cleaned))
                  ELSE [ok |-> FALSE, v |-> None]
    IN  IF direct.ok THEN direct.v
        ELSE IF window.ok THEN window.v
        ELSE Sentinel(cleaned)

\* LLMAnalyzer._parse_response for a reply that is a string
ParseResponse(response_text) ==
    LET Step4(json_match) ==
            IF json_match.ok THEN json_match.v ELSE Sentinel(response_text)
        Step3(cleaned, snippet) ==
            IF snippet.ok THEN snippet.v
            ELSE Step4(IF RegexBraces(cleaned).found THEN Loads(RegexBraces(cleaned).text)
                       ELSE [ok |-> FALSE, v |-> None])
        Step2(cleaned, direct) ==
            IF direct.ok THEN direct.v
            ELSE Step3(cleaned,
                       IF /\ Find(cleaned, LB) # 0
                          /\ Find(cleaned, RB) # 0
                          /\ RFind(cleaned, RB) > Find(cleaned, LB)
                       THEN Loads(BraceWindow(cleaned))
                       ELSE [ok |-> FALSE, v |-> None])
        Step1(cleaned) == Step2(cleaned, Loads(cleaned))
    IN  Step1(Cleaned(response_text))

\* LLMAnalyzer._parse_response(response): response is None or a string
parse_response(response) ==
    IF IsStr(response) THEN ParseResponse(response.s)
    ELSE \* None.strip() raises AttributeError, caught by the last handler
         MkDict(<<Pair(ErrorKey, MkStr(<<"Response parsing error: ", "AttributeError">>)),
                  Pair(RawResponse, response)>>)

(***************************************************************************)
(* TokenCounter.                                                           *)
(***************************************************************************)
NewTokenCounter == [total_tokens |-> 0, requests_count |-> 0, api_calls_log |-> <<>>]

\* TokenCounter.estimate_tokens: four characters per token, a lexeme counted
\* as one character
estimate_tokens(text) == Len(text) \div 4

\* add_tokens that counts the request and its tokens without logging the call
add_tokens_NoLog(tc, prompt_tokens, response_tokens) ==
    [total_tokens |-> tc.total_tokens + prompt_tokens + response_tokens,
     requests_count |-> tc.requests_count + 1,
     api_calls_log |-> tc.api_calls_log]

\* TokenCounter.add_tokens
add_tokens(tc, prompt_tokens, response_tokens) ==
    LET total == prompt_tokens + response_tokens
    IN  [total_tokens |-> tc.total_tokens + total,
         requests_count |-> tc.requests_count + 1,
         api_calls_log |-> Append(tc.api_calls_log,
                                  [prompt_tokens |-> prompt_tokens,
                                   response_tokens |-> response_tokens,
                                   total_tokens |-> total])]

(***************************************************************************)
(* AnalysisCache: the in-process tier is a set of [key, val] entries, the  *)
(* durable tier a set of files [key, content].                             *)
(***************************************************************************)
\* every lexeme of a hashed text, in a fixed order
LexemeTable ==
    <<"a", "b", Q, EQ, LB, RB, LK, RK, COLON, COMMA, WS, MINUS, FENCE, JSONWORD,
      "null", "true", "false", "x", "raw_response", "error", "strengths", "confidence",
      "AttributeError", "Failed to parse skills extraction response",
      "0", "1", "2", "3", "4", "5", "6", "7", "8", "9">>

HexDigit(n) ==
    CASE n < 10 -> DigitTok(n)
      [] n = 10 -> "a" [] n = 11 -> "b" [] n = 12 -> "c"
      [] n = 13 -> "d" [] n = 14 -> "e" [] n = 15 -> "f"

LexemeCode(t) ==
    IF \E i \in DOMAIN LexemeTable : LexemeTable[i] = t
    THEN CHOOSE i \in DOMAIN LexemeTable : LexemeTable[i] = t
    ELSE 0

\* hashlib.sha256(text.encode()).hexdigest(): a collision-free digest, here two
\* hexadecimal digits for each lexeme of the text
RECURSIVE HexDigest(_)
HexDigest(text) ==
    IF text = <<>> THEN <<>>
    ELSE <<HexDigit(LexemeCode(Head(text)) \div 16), HexDigit(LexemeCode(Head(text)) % 16)>>
         \o HexDigest(Tail(text))

\* the key with only the first character of the text hashed
generate_key_first_character(resume_text, analysis_type) ==
    analysis_type \o <<"_">> \o HexDigest(SubSeq(resume_text, 1, 1))

\* AnalysisCache._generate_key: f"{analysis_type}_{resume_hash}"
generate_key(resume_text, analysis_type) == analysis_type \o <<"_">> \o HexDigest(resume_text)

HasEntry(tier, key) == \E e \in tier : e.key = key
Entry(tier, key) == CHOOSE e \in tier : e.key = key
Without(tier, key) == {e \in tier : e.key # key}

\* value.copy() exists for dict and list only
HasCopy(v) == IsDict(v) \/ IsList(v)

\* open(os.path.join(cache_dir, key + ".json"), 'w') succeeds unless the key names
\* a path below a directory that does not exist
PATHSEP == "/"
CanOpenForWrite(key) == \A i \in DOMAIN key : key[i] # PATHSEP

\* get that leaves the in-process tier as it was on a hit in the durable tier
CacheGet_NoPromotion(c, d, resume_text, analysis_type) ==
    LET key == analysis_type \o <<"_">> \o HexDigest(resume_text)
    IN  IF \E e \in c : e.key = key
        THEN [result |-> (CHOOSE e \in c : e.key = key).val, cache |-> c, raised |-> FALSE]
        ELSE IF \E f \in d : f.key = key
        THEN LET data == Loads((CHOOSE f \in d : f.key = key).content)
             IN  [result |-> IF data.ok THEN data.v ELSE None, cache |-> c, raised |-> FALSE]
        ELSE [result |-> None, cache |-> c, raised |-> FALSE]

\* get that finds nothing in either tier
CacheGet_AlwaysMiss(c, d, resume_text, analysis_type) == [result |-> None, cache |-> c, raised |-> FALSE]

\* AnalysisCache.get: [result, cache, raised]
CacheGet(c, d, resume_text, analysis_type) ==
    LET key == generate_key(resume_text, analysis_type)
    IN  IF HasEntry(c, key)
        THEN IF HasCopy(Entry(c, key).val)
             THEN [result |-> Entry(c, key).val, cache |-> c, raised |-> FALSE]
             ELSE [result |-> None, cache |-> c, raised |-> TRUE]
        ELSE IF HasEntry(d, key)
        THEN LET data == Loads(Entry(d, key).content)
             IN  IF ~data.ok THEN [result |-> None, cache |-> c, raised |-> FALSE]
                 ELSE LET c2 == c \cup {[key |-> key, val |-> data.v]}
                      IN  IF HasCopy(data.v)
                          THEN [result |-> data.v, cache |-> c2, raised |-> FALSE]
                          ELSE [result |-> None, cache |-> c2, raised |-> FALSE]
        ELSE [result |-> None, cache |-> c, raised |-> FALSE]

\* the disk half of AnalysisCache.set
DiskWrite(d, key, result) ==
    IF CanOpenForWrite(key)
    THEN Without(d, key) \cup {[key |-> key, content |-> Dumps(result)]}
    ELSE d

\* set that keeps an entry that is already there
CacheSet_KeepExisting(c, d, resume_text, analysis_type, result) ==
    LET key == analysis_type \o <<"_">> \o HexDigest(resume_text)
    IN  IF ~HasCopy(result) THEN [cache |-> c, disk |-> d, raised |-> TRUE]
        ELSE IF \E f \in d : f.key = key THEN [cache |-> c, disk |-> d, raised |-> FALSE]
        ELSE [cache |-> c \cup {[key |-> key, val |-> result]},
              disk |-> DiskWrite(d, key, result),
              raised |-> FALSE]

\* AnalysisCache.set: [cache, disk, raised]
CacheSet(c, d, resume_text, analysis_type, result) ==
    LET key == generate_key(resume_text, analysis_type)
    IN  IF ~HasCopy(result) THEN [cache |-> c, disk |-> d, raised |-> TRUE]
        ELSE [cache |-> Without(c, key) \cup {[key |-> key, val |-> result]},
              disk |-> DiskWrite(d, key, result),
              raised |-> FALSE]

\* clear that empties the in-process tier and leaves the directory as it is
CacheClear_MemoryOnly(c, d) == [cache |-> {}, disk |-> d]

\* AnalysisCache.clear: [cache, disk]
CacheClear(c, d) == [cache |-> {}, disk |-> {}]

(***************************************************************************)
(* The inference call.  The environment answers attempt i with script[i]:  *)
(* "ok" is HTTP 200 with a JSON body whose response field is text;         *)
(* "exception" is any other exception raised in the attempt (a 200 reply   *)
(* whose body does not decode included).                                   *)
(***************************************************************************)
FailureKinds == {"timeout", "connection_error", "exception", "http429", "http_error"}

Ok(text) == [kind |-> "ok", text |-> text]
Failure(kind) == [kind |-> kind, text |-> <<>>]

\* a delay of one time unit after every failed attempt
Pow2_Fixed(n) == 1

RECURSIVE Pow2(_)
Pow2(n) == IF n = 0 THEN 1 ELSE 2 * Pow2(n - 1)

\* the loop body from attempt (0-based) on; sleeps are the delays slept so far
RECURSIVE RetryLoop(_, _, _, _)
RetryLoop(script, n, attempt, sleeps) ==
    IF attempt >= n
    THEN [result |-> None, attempts |-> attempt, sleeps |-> sleeps]
    ELSE LET o == script[attempt + 1]
         IN  IF o.kind = "ok"
             THEN [result |-> MkStr(o.text), attempts |-> attempt + 1, sleeps |-> sleeps]
             ELSE IF o.kind = "http429"
             THEN RetryLoop(script, n, attempt + 1, Append(sleeps, Pow2(attempt)))
             ELSE IF attempt < n - 1
             THEN RetryLoop(script, n, attempt + 1, Append(sleeps, Pow2(attempt)))
             ELSE RetryLoop(script, n, attempt + 1, sleeps)

\* the call with one attempt fewer than max_retries
call_ollama_one_attempt_less(script, n) ==
    RetryLoop(script, IF n > 0 THEN n - 1 ELSE 0, 0, <<>>)

\* the call with an empty text, not None, once the attempts are used up
call_ollama_default_answer(script, n) ==
    LET r == RetryLoop(script, n, 0, <<>>)
    IN  IF r.result = None THEN [r EXCEPT !.result = MkStr(<<>>)] ELSE r

\* LLMAnalyzer._call_ollama_with_retry with max_retries = n:
\* [result, attempts, sleeps]
call_ollama_with_retry(script, n) == RetryLoop(script, n, 0, <<>>)

(***************************************************************************)
(* LLMAnalyzer.analyze_resume.                                             *)
(***************************************************************************)
CachedKey == <<"cached">>

ErrorRecord(message) == MkDict(<<Pair(ErrorKey, MkStr(message))>>)

NoResponseError == ErrorRecord(<<"No response from Ollama. Check connection.">>)
AnalysisFailed(exc) == ErrorRecord(<<"Analysis failed: ", exc>>)
NotValidJsonError(raw) ==
    MkDict(<<Pair(ErrorKey, MkStr(<<"LLM response was not valid JSON; see raw_response">>)),
             Pair(RawResponse, raw)>>)

\* key in v: "yes", "no", or "raise" (TypeError) by the type of v
PyIn(key, v) ==
    CASE v.tag = "dict" -> IF HasKey(v, key) THEN "yes" ELSE "no"
      [] v.tag = "list" -> IF \E i \in DOMAIN v.el : v.el[i] = MkStr(key) THEN "yes" ELSE "no"
      [] v.tag = "str" -> IF SubText(key, v.s) THEN "yes" ELSE "no"
      [] OTHER -> "raise"

\* prompt_func(resume_text): the template with the resume text in it
Prompt(analysis_type, resume_text) ==
    <<"You are an expert">> \o analysis_type \o <<"Resume:">> \o resume_text
        \o <<"Return ONLY valid JSON">>

\* what an operation did: its result, the state it leaves, the inference calls it
\* made and the cache.set calls it completed
Outcome(result, c, d, tc, calls, sets) ==
    [result |-> result, cache |-> c, disk |-> d, token_counter |-> tc, calls |-> calls,
     sets |-> sets]

\* AnalyzeParsed without the check for the raw-text sentinel
AnalyzeParsed_NoSentinelCheck(c, d, tc, resume_text, analysis_type, use_cache, parsed, calls) ==
    IF use_cache /\ PyIn(ErrorKey, parsed) = "no" /\ IsDict(parsed)
    THEN LET w == CacheSet(c, d, resume_text, analysis_type, parsed)
         IN  Outcome(DictPut(parsed, CachedKey, MkBool(FALSE)), w.cache, w.disk, tc, calls,
                     <<[text |-> resume_text, kind |-> analysis_type, val |-> parsed]>>)
    ELSE Outcome(parsed, c, d, tc, calls, <<>>)

\* lines 500-512: the reply was parsed and the ledger updated
AnalyzeParsed(c, d, tc, resume_text, analysis_type, use_cache, parsed, calls) ==
    LET sets == <<[text |-> resume_text, kind |-> analysis_type, val |-> parsed]>>
        Stored(w) ==
            IF w.raised THEN Outcome(AnalysisFailed("AttributeError"), c, d, tc, calls, <<>>)
            ELSE IF IsDict(parsed)
            THEN Outcome(DictPut(parsed, CachedKey, MkBool(FALSE)),
                         w.cache, w.disk, tc, calls, sets)
            ELSE Outcome(AnalysisFailed("TypeError"), w.cache, w.disk, tc, calls, sets)
        Checked(hasRaw) ==
            IF hasRaw = "raise" THEN Outcome(AnalysisFailed("TypeError"), c, d, tc, calls, <<>>)
            ELSE IF hasRaw = "yes" /\ ~IsDict(parsed)
            THEN Outcome(AnalysisFailed("AttributeError"), c, d, tc, calls, <<>>)
            ELSE IF hasRaw = "yes" /\ Cardinality(Keys(parsed)) = 1
            THEN Outcome(NotValidJsonError(DictGet(parsed, RawResponse, None)),
                         c, d, tc, calls, <<>>)
            ELSE IF use_cache /\ PyIn(ErrorKey, parsed) = "no"
            THEN Stored(CacheSet(c, d, resume_text, analysis_type, parsed))
            ELSE Outcome(parsed, c, d, tc, calls, <<>>)
    IN  Checked(PyIn(RawResponse, parsed))

\* lines 482-512 with the ledger updated after the validation, for a success
\* record only
AnalyzeFresh_LedgerOnSuccess(c, d, tc, resume_text, analysis_type, use_cache, script, n) ==
    LET Counted(o, call) ==
            IF IsDict(o.result) /\ HasKey(o.result, ErrorKey) THEN o
            ELSE [o EXCEPT !.token_counter =
                               add_tokens(tc, estimate_tokens(Prompt(analysis_type, resume_text)),
                                          estimate_tokens(call.result.s))]
        Called(call) ==
            IF ~Truthy(call.result) THEN Outcome(NoResponseError, c, d, tc, <<call>>, <<>>)
            ELSE Counted(AnalyzeParsed(c, d, tc, resume_text, analysis_type, use_cache,
                                       parse_response(call.result), <<call>>),
                         call)
    IN  Called(call_ollama_with_retry(script, n))

\* lines 482-512: no usable cache entry
AnalyzeFresh(c, d, tc, resume_text, analysis_type, use_cache, script, n) ==
    LET Called(call) ==
            IF ~Truthy(call.result) THEN Outcome(NoResponseError, c, d, tc, <<call>>, <<>>)
            ELSE AnalyzeParsed(c, d,
                               add_tokens(tc,
                                          estimate_tokens(Prompt(analysis_type, resume_text)),
                                          estimate_tokens(call.result.s)),
                               resume_text, analysis_type, use_cache,
                               parse_response(call.result), <<call>>)
    IN  Called(call_ollama_with_retry(script, n))

\* analyze_resume that looks the request up and stores the result whatever
\* use_cache is
analyze_resume_IgnoreBypass(c, d, tc, resume_text, analysis_type, use_cache, script, n) ==
    LET Looked(g) ==
            IF g.raised
            THEN Outcome(AnalysisFailed("AttributeError"), g.cache, d, tc, <<>>, <<>>)
            ELSE IF ~Truthy(g.result)
            THEN AnalyzeFresh(g.cache, d, tc, resume_text, analysis_type, TRUE, script, n)
            ELSE IF IsDict(g.result)
            THEN Outcome(DictPut(g.result, CachedKey, MkBool(TRUE)),
                         g.cache, d, tc, <<>>, <<>>)
            ELSE Outcome(AnalysisFailed("TypeError"), g.cache, d, tc, <<>>, <<>>)
    IN  Looked(CacheGet(c, d, resume_text, analysis_type))

\* LLMAnalyzer.analyze_resume: an Outcome
analyze_resume(c, d, tc, resume_text, analysis_type, use_cache, script, n) ==
    LET Looked(g) ==
            IF g.raised
            THEN Outcome(AnalysisFailed("AttributeError"), g.cache, d, tc, <<>>, <<>>)
            ELSE IF ~Truthy(g.result)
            THEN AnalyzeFresh(g.cache, d, tc, resume_text, analysis_type, use_cache, script, n)
            ELSE IF IsDict(g.result)
            THEN Outcome(DictPut(g.result, CachedKey, MkBool(TRUE)),
                         g.cache, d, tc, <<>>, <<>>)
            ELSE Outcome(AnalysisFailed("TypeError"), g.cache, d, tc, <<>>, <<>>)
    IN  IF use_cache THEN Looked(CacheGet(c, d, resume_text, analysis_type))
        ELSE AnalyzeFresh(c, d, tc, resume_text, analysis_type, use_cache, script, n)

(***************************************************************************)
(* Inputs of the model.                                                    *)
(***************************************************************************)
\* all texts over alphabet of length at most n
RECURSIVE TextsUpTo(_, _)
TextsUpTo(alphabet, n) ==
    IF n = 0 THEN {<<>>}
    ELSE LET shorter == TextsUpTo(alphabet, n - 1)
         IN  shorter \cup {Append(t, a) : t \in shorter, a \in alphabet}

\* resume texts: words over two letters
ResumeTexts == TextsUpTo({"a", "b"}, MaxTextLen) \ {<<>>}

\* two resume texts of full length that differ in their last character only
TextA == [i \in 1..MaxTextLen |-> "a"]
TextB == [i \in 1..MaxTextLen |-> IF i = MaxTextLen THEN "b" ELSE "a"]
RequestTexts == {TextA, TextB}

\* replies of the service, one for each shape the orchestrator tells apart
ReplyObject == <<LB, Q, "a", Q, COLON, "1", RB>>
ReplyEmptyObject == <<LB, RB>>
ReplyArray == <<LK, "1", RK>>
ReplyNumber == <<"1">>
ReplyString == <<Q, "a", Q>>
ReplyProse == <<"x", WS, "x">>
ReplyEmpty == <<>>
ReplyErrorObject == <<LB, Q, "error", Q, COLON, Q, "x", Q, RB>>
ReplyFenced ==
    <<"x", WS, FENCE, JSONWORD, WS, LB, Q, "a", Q, COLON, "1", RB, WS, FENCE, WS, "x">>

Replies == {ReplyObject, ReplyEmptyObject, ReplyArray, ReplyNumber, ReplyString,
            ReplyProse, ReplyEmpty, ReplyErrorObject}

\* the script of n answers: k failures of one kind, then answer o
ScriptOf(k, failure, o, n) == [i \in 1..n |-> IF i <= k THEN Failure(failure) ELSE o]

\* the scripts the orchestrator is run against
OrchScripts(n) ==
    {ScriptOf(n, f, Failure(f), n) : f \in {"timeout", "http429"}}
    \cup {ScriptOf(0, "timeout", Ok(r), n) : r \in Replies \cap (IF n > 0 THEN Replies ELSE {})}
    \cup {ScriptOf(n - 1, "timeout", Ok(ReplyObject), n) : k \in (IF n > 1 THEN {1} ELSE {})}

(***************************************************************************)
(* The orchestrator instance run sequentially: analyze_resume, with the    *)
(* cache cleared and the process restarted in between.  last records the   *)
(* operation that ended last.                                              *)
(***************************************************************************)
\* int(os.getenv("MAX_RETRIES", "3"))
DEFAULT_MAX_RETRIES == 3

STRENGTHS == <<"strengths">>
AnalyzeKinds == {STRENGTHS}

IsError(result) == IsDict(result) /\ HasKey(result, ErrorKey)

Record(op, text, kind, use_cache, o, c, d, tc) ==
    [op |-> op, text |-> text, kind |-> kind, use_cache |-> use_cache,
     result |-> o.result, calls |-> o.calls,
     sets |-> o.sets, cache_changed |-> o.cache # c, disk_changed |-> o.disk # d,
     requests_added |-> o.token_counter.requests_count - tc.requests_count]

NoRecord ==
    Record("none", <<>>, <<>>, FALSE, Outcome(None, {}, {}, NewTokenCounter, <<>>, <<>>),
           {}, {}, NewTokenCounter)

Init ==
    /\ cache = {}
    /\ disk = {}
    /\ token_counter = NewTokenCounter
    /\ max_retries = DEFAULT_MAX_RETRIES
    /\ last = NoRecord
    /\ input = <<>>

Finish(op, text, kind, use_cache, o) ==
    /\ cache' = o.cache
    /\ disk' = o.disk
    /\ token_counter' = o.token_counter
    /\ last' = Record(op, text, kind, use_cache, o, cache, disk, token_counter)
    /\ UNCHANGED <<max_retries, input>>

Analyze ==
    /\ \E resume_text \in RequestTexts, analysis_type \in AnalyzeKinds,
          use_cache \in BOOLEAN, script \in OrchScripts(max_retries) :
          \E o \in {analyze_resume(cache, disk, token_counter, resume_text, analysis_type,
                                  use_cache, script, max_retries)} :
              /\ o.token_counter.requests_count <= MaxRequests
              /\ Finish("analyze", resume_text, analysis_type, use_cache, o)

Clear ==
    LET w == CacheClear(cache, disk)
    IN  Finish("clear", <<>>, <<>>, FALSE,
               Outcome(None, w.cache, w.disk, token_counter, <<>>, <<>>))

\* the process ends and a new LLMAnalyzer is constructed over the same cache directory
Restart ==
    Finish("restart", <<>>, <<>>, FALSE,
           Outcome(None, {}, disk, NewTokenCounter, <<>>, <<>>))

Next == Analyze \/ Clear \/ Restart

Spec == Init /\ [][Next]_vars

(***************************************************************************)
(* The normaliser alone: the reply is drawn at the start and parsed once.  *)
(***************************************************************************)
ParseAlphabet == {Q, LB, RB, LK, RK, COLON, COMMA, WS, FENCE, JSONWORD, "1", "a", "null"}

ReplyNestedArray == <<LK, LB, RB, RK>>
ReplyBracedProse == <<"x", LB, "x", RB, "x">>
ReplyShortFenced == <<FENCE, JSONWORD, LB, RB, FENCE>>

ReplyDomain ==
    TextsUpTo(ParseAlphabet, MaxReplyLen) \cup Replies
        \cup {ReplyFenced, ReplyNestedArray, ReplyBracedProse, ReplyShortFenced}

InitParse ==
    /\ cache = {}
    /\ disk = {}
    /\ token_counter = NewTokenCounter
    /\ max_retries = DEFAULT_MAX_RETRIES
    /\ last = NoRecord
    /\ input \in ReplyDomain

Parse ==
    /\ last.op = "none"
    /\ last' = Record("parse", input, <<>>, FALSE,
                      Outcome(parse_response(MkStr(input)), cache, disk, token_counter, <<>>, <<>>),
                      cache, disk, token_counter)
    /\ UNCHANGED <<cache, disk, token_counter, max_retries, input>>

SpecParse == InitParse /\ [][Parse]_vars

(***************************************************************************)
(* The inference call alone: max_retries and the environment's answers are *)
(* drawn at the start and the call is made once.                           *)
(***************************************************************************)
AttemptOutcomes == {Failure(f) : f \in FailureKinds} \cup {Ok(ReplyObject), Ok(ReplyEmpty)}

InitRetry ==
    /\ cache = {}
    /\ disk = {}
    /\ token_counter = NewTokenCounter
    /\ max_retries \in 0..MaxRetriesBound
    /\ last = NoRecord
    /\ input \in [1..max_retries -> AttemptOutcomes]

Call ==
    /\ last.op = "none"
    /\ LET call == call_ollama_with_retry(input, max_retries)
       IN  last' = Record("call", <<>>, <<>>, FALSE,
                          Outcome(call.result, cache, disk, token_counter, <<call>>, <<>>),
                          cache, disk, token_counter)
    /\ UNCHANGED <<cache, disk, token_counter, max_retries, input>>

SpecRetry == InitRetry /\ [][Call]_vars

(***************************************************************************)
(* Claims about the inference call (SpecRetry).                            *)
(***************************************************************************)
AllFail(script) == \A i \in DOMAIN script : script[i].kind \in FailureKinds

\* the first attempt answered with HTTP 200, 0 when there is none
FirstOk(script) ==
    IF AllFail(script) THEN 0
    ELSE CHOOSE k \in DOMAIN script :
            script[k].kind = "ok" /\ \A j \in 1..(k - 1) : script[j].kind # "ok"

\* C3: whatever max_retries = N >= 0 is and whatever the failing attempts are
\* (timeout, connection error, other exception, 429, other status), the call
\* makes exactly N attempts and returns None; the call always returns.
RetryCeiling ==
    /\ last.op = "none" => ENABLED Call
    /\ (last.op = "call" /\ AllFail(input)) =>
          /\ last.calls[1].attempts = max_retries
          /\ last.result = None

RetryCeilingWitness ==
    /\ last.op = "call"
    /\ max_retries = DEFAULT_MAX_RETRIES
    /\ \A i \in DOMAIN input : input[i].kind = "timeout"
    /\ last.calls[1].attempts = DEFAULT_MAX_RETRIES
    /\ last.result = None

ValueTags == {"none", "bool", "int", "str", "list", "dict"}

NoBraces(text) == \A i \in DOMAIN text : text[i] \notin {LB, RB}

\* C6: the parse of a reply string always yields a value; a reply without braces
\* whose fence-stripped, trimmed text is not valid JSON yields the sentinel
\* {raw_response: <the reply as received>}.
ParseTotal ==
    last.op = "parse" =>
        /\ last.result.tag \in ValueTags
        /\ (NoBraces(input) /\ ~Loads(Cleaned(input)).ok) =>
              last.result = MkDict(<<Pair(RawResponse, MkStr(input))>>)

ParseTotalWitness ==
    /\ last.op = "parse"
    /\ input = <<WS, "a", FENCE>>
    /\ last.result = MkDict(<<Pair(RawResponse, MkStr(<<WS, "a", FENCE>>))>>)

\* the slice of text from its first { to its last }, <<>> when there is none
FirstToLastBrace(text) ==
    LET opens == {i \in DOMAIN text : text[i] = LB}
        closes == {i \in DOMAIN text : text[i] = RB}
    IN  IF opens = {} \/ closes = {} THEN <<>>
        ELSE LET a == CHOOSE i \in opens : \A j \in opens : i <= j
                 b == CHOOSE i \in closes : \A j \in closes : j <= i
             IN  IF b > a THEN SubSeq(text, a, b) ELSE <<>>

\* C7: the result is the direct parse of the fence-stripped, trimmed reply when
\* that succeeds; otherwise the parse of the slice from the first { to the last }
\* (which is also the greedy brace span) when that succeeds; otherwise the
\* sentinel.  noise + fenced {"a":1} + noise yields {a:1}.
NormalizerOrder ==
    last.op = "parse" =>
        LET cleaned == Cleaned(input)
            direct == Loads(cleaned)
            slice == Loads(FirstToLastBrace(cleaned))
            span == RegexBraces(cleaned)
        IN  /\ direct.ok => last.result = direct.v
            /\ (~direct.ok /\ slice.ok) => last.result = slice.v
            /\ (~direct.ok /\ ~slice.ok) => last.result = Sentinel(input)
            /\ span.found => span.text = FirstToLastBrace(cleaned)
            /\ input = ReplyFenced => last.result = MkDict(<<Pair(<<"a">>, MkInt(1))>>)

NormalizerOrderWitness ==
    /\ last.op = "parse"
    /\ input = ReplyFenced
    /\ ~Loads(Cleaned(input)).ok
    /\ last.result = MkDict(<<Pair(<<"a">>, MkInt(1))>>)

(***************************************************************************)
(* Claims about analyze_resume (Spec).                                     *)
(***************************************************************************)
Success(l) == l.op = "analyze" /\ IsDict(l.result) /\ ~HasKey(l.result, ErrorKey)

\* C1: when analyze(T, K) with caching enabled has made its inference call and
\* returned a success record, the same analyze(T, K) called next makes no
\* inference call: the two calls together issue exactly one.
CacheIdempotence ==
    [][(/\ Success(last) /\ last.use_cache /\ Len(last.calls) = 1
        /\ last'.op = "analyze" /\ last'.use_cache
        /\ last'.text = last.text /\ last'.kind = last.kind)
       => Len(last'.calls) = 0]_vars

\* C2: when the parse of the reply is only the raw-text sentinel, analyze returns
\* a record with an error field and the raw text, and completes no cache.set:
\* neither tier holds an entry it did not hold before the call.
SentinelIsError ==
    (/\ last.op = "analyze" /\ Len(last.calls) = 1 /\ Truthy(last.calls[1].result)
     /\ parse_response(last.calls[1].result) = Sentinel(last.calls[1].result.s))
    => /\ IsError(last.result)
       /\ DictGet(last.result, RawResponse, None) = last.calls[1].result
       /\ last.sets = <<>>
       /\ ~last.disk_changed
       /\ \A e \in cache : e.val # Sentinel(last.calls[1].result.s)

SentinelIsErrorWitness ==
    /\ last.op = "analyze"
    /\ last.use_cache
    /\ Len(last.calls) = 1
    /\ last.calls[1].result = MkStr(ReplyProse)
    /\ IsError(last.result)
    /\ DictGet(last.result, RawResponse, None) = MkStr(ReplyProse)

(***************************************************************************)
(* AnalysisCache alone: set, get and clear on one cache directory, the     *)
(* process restarted in between, and a process killed while set writes its *)
(* file.  input holds the set calls completed since the last clear, the    *)
(* latest for each (text, kind).                                           *)
(***************************************************************************)
\* f"skills_gap_{target_role}_{experience_level}" with the role "UI/UX"
GAP_UI_UX == <<"skills_gap_", "UI", PATHSEP, "UX", "_", "mid">>
CacheKinds == {STRENGTHS, GAP_UI_UX}

PayloadObject == MkDict(<<Pair(<<"a">>, MkInt(1))>>)
PayloadQuoted == MkDict(<<Pair(<<"a">>, MkStr(<<"x", Q>>))>>)
CachePayloads == {PayloadObject, PayloadQuoted}

CacheRecord(op, text, kind, val, result, c, d) ==
    [op |-> op, text |-> text, kind |-> kind, val |-> val, result |-> result,
     cache_before |-> c, disk_before |-> d]

\* the completed set calls without the one for (text, kind)
Forget(done, text, kind) == {h \in done : h.text # text \/ h.kind # kind}

InitCache ==
    /\ cache = {}
    /\ disk = {}
    /\ token_counter = NewTokenCounter
    /\ max_retries = DEFAULT_MAX_RETRIES
    /\ last = CacheRecord("none", <<>>, <<>>, None, None, {}, {})
    /\ input = {}

Set ==
    \E resume_text \in RequestTexts, analysis_type \in CacheKinds, result \in CachePayloads :
        \E w \in {CacheSet(cache, disk, resume_text, analysis_type, result)} :
            /\ input' = Forget(input, resume_text, analysis_type)
                            \cup {[text |-> resume_text, kind |-> analysis_type, val |-> result]}
            /\ Cardinality(input') <= MaxEntries
            /\ cache' = w.cache
            /\ disk' = w.disk
            /\ last' = CacheRecord("set", resume_text, analysis_type, result, None, cache, disk)
            /\ UNCHANGED <<token_counter, max_retries>>

Get ==
    \E resume_text \in RequestTexts, analysis_type \in CacheKinds :
        \E g \in {CacheGet(cache, disk, resume_text, analysis_type)} :
            /\ cache' = g.cache
            /\ last' = CacheRecord("get", resume_text, analysis_type, None, g.result, cache, disk)
            /\ UNCHANGED <<disk, token_counter, max_retries, input>>

ClearAll ==
    \E w \in {CacheClear(cache, disk)} :
        /\ cache' = w.cache
        /\ disk' = w.disk
        /\ input' = {}
        /\ last' = CacheRecord("clear", <<>>, <<>>, None, None, cache, disk)
        /\ UNCHANGED <<token_counter, max_retries>>

\* the process ends and a new AnalysisCache is constructed over the same directory
NewInstance ==
    /\ cache' = {}
    /\ last' = CacheRecord("restart", <<>>, <<>>, None, None, cache, disk)
    /\ UNCHANGED <<disk, token_counter, max_retries, input>>

\* what the file holds when the process is killed inside json.dump: nothing, or
\* all but the last lexeme
Truncated(content) == {SubSeq(content, 1, n) : n \in {0, Len(content) - 1}}

\* set killed while it writes its file; the next process starts with an empty
\* in-process tier
KilledInSet ==
    \E resume_text \in RequestTexts, analysis_type \in CacheKinds, result \in CachePayloads :
        \E key \in {generate_key(resume_text, analysis_type)} :
            /\ CanOpenForWrite(key)
            /\ \E written \in Truncated(Dumps(result)) :
                  disk' = Without(disk, key) \cup {[key |-> key, content |-> written]}
            /\ cache' = {}
            /\ last' = CacheRecord("killed", resume_text, analysis_type, result, None,
                                   cache, disk)
            /\ UNCHANGED <<token_counter, max_retries, input>>

NextCache == Set \/ Get \/ ClearAll \/ NewInstance \/ KilledInSet

SpecCache == InitCache /\ [][NextCache]_vars

(***************************************************************************)
(* Claims about AnalysisCache (SpecCache).                                 *)
(***************************************************************************)
AllRequests == ResumeTexts \X CacheKinds

\* no two different requests have the same key
KeysDiffer ==
    \A r1, r2 \in AllRequests :
        (generate_key(r1[1], r1[2]) = generate_key(r2[1], r2[2])) <=> (r1 = r2)

\* C5: the key is a function of (text, kind) that tells any two requests apart,
\* and a get that returns a payload returns the one last stored by a set with
\* the same text and the same kind: nothing stored under (T, K) comes back from
\* get(T', K') with T' # T or K' # K.
KeySeparatesRequests ==
    /\ KeysDiffer
    /\ (last.op = "get" /\ last.result # None)
       => \E h \in input :
             h.text = last.text /\ h.kind = last.kind /\ h.val = last.result

\* a get of TextB misses while the same kind is stored under TextA only, which
\* differs from TextB in its last character
KeySeparatesRequestsWitness ==
    /\ last.op = "get"
    /\ last.text = TextB
    /\ last.result = None
    /\ HasEntry(last.cache_before, generate_key(TextA, last.kind))
    /\ HasEntry(last.disk_before, generate_key(TextA, last.kind))
    /\ \A h \in input : h.text = TextA

\* C9: once set(T, K, p) has completed, the in-process tier and the durable tier
\* both hold p under key(T, K).
SetWritesBothTiers ==
    last.op = "set"
    => LET key == generate_key(last.text, last.kind)
       IN  /\ HasEntry(cache, key)
           /\ Entry(cache, key).val = last.val
           /\ HasEntry(disk, key)
           /\ Loads(Entry(disk, key).content).ok
           /\ Loads(Entry(disk, key).content).v = last.val

\* C10: get returns the payload of the in-process tier when the key is there and
\* leaves both tiers alone; otherwise, when the durable tier holds a readable
\* file for the key, get returns its payload and the in-process tier holds it
\* afterwards; otherwise (no file, or a file that does not decode) get returns
\* None and changes nothing.
GetTwoTier ==
    last.op = "get"
    => LET key == generate_key(last.text, last.kind)
           inMemory == HasEntry(last.cache_before, key)
           onDisk == HasEntry(last.disk_before, key)
           data == IF onDisk THEN Loads(Entry(last.disk_before, key).content) ELSE Fail
       IN  /\ disk = last.disk_before
           /\ inMemory
              => /\ last.result = Entry(last.cache_before, key).val
                 /\ cache = last.cache_before
           /\ (~inMemory /\ data.ok)
              => /\ last.result = data.v
                 /\ cache = last.cache_before \cup {[key |-> key, val |-> data.v]}
           /\ (~inMemory /\ ~data.ok)
              => /\ last.result = None
                 /\ cache = last.cache_before

\* a get after a restart: the key is in the durable tier only, the payload comes
\* back and is in the in-process tier afterwards
GetTwoTierWitness ==
    /\ last.op = "get"
    /\ ~HasEntry(last.cache_before, generate_key(last.text, last.kind))
    /\ HasEntry(last.disk_before, generate_key(last.text, last.kind))
    /\ last.result = PayloadQuoted
    /\ HasEntry(cache, generate_key(last.text, last.kind))
    /\ Entry(cache, generate_key(last.text, last.kind)).val = PayloadQuoted

\* a get that finds a file which does not decode, and misses
UnreadableFileMisses ==
    /\ last.op = "get"
    /\ HasEntry(last.disk_before, generate_key(last.text, last.kind))
    /\ last.result = None

\* C11: immediately after clear() has returned, neither tier holds anything and
\* get(T, K) is a miss for every request, those stored before included, in the
\* in-process tier and in the durable tier.
ClearIsDestructive ==
    last.op = "clear"
    => /\ cache = {}
       /\ disk = {}
       /\ \A r \in RequestTexts \X CacheKinds :
              CacheGet(cache, disk, r[1], r[2]) = [result |-> None, cache |-> {}, raised |-> FALSE]

\* a clear while a request is in both tiers, one for which get was a hit
ClearIsDestructiveWitness ==
    /\ last.op = "clear"
    /\ \E r \in RequestTexts \X CacheKinds :
          /\ HasEntry(last.cache_before, generate_key(r[1], r[2]))
          /\ HasEntry(last.disk_before, generate_key(r[1], r[2]))
          /\ CacheGet(last.cache_before, last.disk_before, r[1], r[2]).result = PayloadObject
    /\ \E r \in RequestTexts \X CacheKinds :
          /\ ~HasEntry(last.cache_before, generate_key(r[1], r[2]))
          /\ CacheGet(last.cache_before, last.disk_before, r[1], r[2]).result = PayloadQuoted

(***************************************************************************)
(* The public operations of LLMAnalyzer.  Each one is an Outcome; an       *)
(* exception that leaves the operation is the result Raised(name).         *)
(***************************************************************************)
Raised(exc) == V("exception", 0, <<exc>>, <<>>, <<>>)

\* int(v): [ok, n]
IntOf(v) ==
    CASE v.tag \in {"int", "bool"} -> [ok |-> TRUE, n |-> v.n]
      [] v.tag = "str" ->
            LET t == Strip(v.s)
                neg == t # <<>> /\ Head(t) = MINUS
                ds == IF neg THEN Tail(t) ELSE t
            IN  IF ds # <<>> /\ \A i \in DOMAIN ds : ds[i] \in Digits
                THEN [ok |-> TRUE, n |-> (IF neg THEN 0 - 1 ELSE 1) * ScanDigits(ds, 1, 0).v.n]
                ELSE [ok |-> FALSE, n |-> 0]
      [] v.tag = "float" ->
            \* a finite float is truncated towards zero; int(inf) and int(nan) raise
            IF v.s # <<>> THEN [ok |-> FALSE, n |-> 0]
            ELSE [ok |-> TRUE, n |-> IF v.n >= 0 THEN v.n \div 10 ELSE 0 - ((0 - v.n) \div 10)]
      [] OTHER -> [ok |-> FALSE, n |-> 0]

\* the item loop with the result of int(confidence) stored as it is
RECURSIVE NormalizeItems_Unclamped(_, _)
NormalizeItems_Unclamped(el, fields) ==
    IF el = <<>> THEN <<>>
    ELSE LET item == Head(el)
             confidence == IntOf(DictGet(item, <<"confidence">>, MkInt(0)))
             out == [i \in DOMAIN fields |->
                        Pair(fields[i].k,
                             IF fields[i].k = <<"confidence">>
                             THEN MkInt(IF confidence.ok THEN confidence.n ELSE 0)
                             ELSE DictGet(item, fields[i].k, fields[i].v))]
         IN  (IF IsDict(item) THEN <<MkDict(out)>> ELSE <<>>)
             \o NormalizeItems_Unclamped(Tail(el), fields)

\* the loop over the items of _normalize_strengths and _normalize_weaknesses:
\* fields are the keys of an item with their defaults
RECURSIVE NormalizeItems(_, _)
NormalizeItems(el, fields) ==
    IF el = <<>> THEN <<>>
    ELSE LET item == Head(el)
             confidence == IntOf(DictGet(item, <<"confidence">>, MkInt(0)))
             bounded == IF ~confidence.ok \/ confidence.n < 0 THEN 0
                        ELSE IF confidence.n > 100 THEN 100 ELSE confidence.n
             out == [i \in DOMAIN fields |->
                        Pair(fields[i].k,
                             IF fields[i].k = <<"confidence">> THEN MkInt(bounded)
                             ELSE DictGet(item, fields[i].k, fields[i].v))]
         IN  (IF IsDict(item) THEN <<MkDict(out)>> ELSE <<>>)
             \o NormalizeItems(Tail(el), fields)

\* the body shared by the two normalisers: the list is under listKey or "items",
\* the summary under summaryKey or "summary"
Normalize(data, listKey, summaryKey, fields) ==
    IF ~IsDict(data) THEN Raised("AttributeError")
    ELSE LET found == DictGet(data, listKey, DictGet(data, <<"items">>, MkList(<<>>)))
             top == DictGet(data, summaryKey, DictGet(data, <<"summary">>, MkStr(<<>>)))
             list == IF IsDict(found) THEN DictGet(found, <<"items">>, MkList(<<>>))
                     ELSE IF IsList(found) THEN found ELSE MkList(<<>>)
             summary == IF IsDict(found) THEN DictGet(found, <<"summary">>, top) ELSE top
             items == IF IsList(list) THEN NormalizeItems(list.el, fields) ELSE <<>>
         IN  IF list.tag \in {"list", "str", "dict"}
             THEN MkDict(<<Pair(<<"summary">>, summary), Pair(<<"items">>, MkList(items))>>)
             ELSE Raised("TypeError")

\* LLMAnalyzer._normalize_strengths
normalize_strengths(data) ==
    Normalize(data, <<"strengths">>, <<"summary">>,
              <<Pair(<<"strength">>, MkStr(<<>>)), Pair(<<"category">>, MkStr(<<"content">>)),
                Pair(<<"importance">>, MkStr(<<"medium">>)), Pair(<<"confidence">>, MkInt(0)),
                Pair(<<"examples">>, MkList(<<>>)), Pair(<<"location">>, MkStr(<<>>))>>)

\* the weaknesses handed on as they came
normalize_weaknesses_AsGiven(data) == data

\* LLMAnalyzer._normalize_weaknesses
normalize_weaknesses(data) ==
    Normalize(data, <<"weaknesses">>, <<"overall_assessment">>,
              <<Pair(<<"weakness">>, MkStr(<<>>)), Pair(<<"category">>, MkStr(<<"content">>)),
                Pair(<<"severity">>, MkStr(<<"minor">>)), Pair(<<"location">>, MkStr(<<>>)),
                Pair(<<"impact">>, MkStr(<<>>)), Pair(<<"fix">>, MkStr(<<>>)),
                Pair(<<"confidence">>, MkInt(0)), Pair(<<"examples">>, MkList(<<>>))>>)

\* lines 642-644 and 650-652: the outcome o of analyze_resume, normalised under name
Normalized(o, name, normalized) ==
    CASE PyIn(ErrorKey, o.result) = "yes" -> o
      [] PyIn(ErrorKey, o.result) = "raise" -> [o EXCEPT !.result = Raised("TypeError")]
      [] OTHER ->
            IF normalized.tag = "exception" THEN [o EXCEPT !.result = normalized]
            ELSE [o EXCEPT !.result =
                     MkDict(<<Pair(name, normalized),
                              Pair(CachedKey, DictGet(o.result, CachedKey, MkBool(FALSE)))>>)]

\* LLMAnalyzer.get_strengths
get_strengths(c, d, tc, resume_text, script, n) ==
    LET Of(o) == Normalized(o, <<"strengths">>, normalize_strengths(o.result))
    IN  Of(analyze_resume(c, d, tc, resume_text, <<"strengths">>, TRUE, script, n))

\* LLMAnalyzer.get_weaknesses
get_weaknesses(c, d, tc, resume_text, script, n) ==
    LET Of(o) == Normalized(o, <<"weaknesses">>, normalize_weaknesses(o.result))
    IN  Of(analyze_resume(c, d, tc, resume_text, <<"weaknesses">>, TRUE, script, n))

\* LLMAnalyzer.get_skills
get_skills(c, d, tc, resume_text, script, n) ==
    analyze_resume(c, d, tc, resume_text, <<"skills">>, TRUE, script, n)

\* LLMAnalyzer.get_improvements
get_improvements(c, d, tc, resume_text, script, n) ==
    analyze_resume(c, d, tc, resume_text, <<"suggestions">>, TRUE, script, n)

\* the number written by the first run of digits, wherever it stands
FirstScore_FirstDigits(text) ==
    LET starts == {i \in DOMAIN text : text[i] \in Digits}
        first == CHOOSE i \in starts : \A j \in starts : i <= j
    IN  IF starts = {} THEN None ELSE ScanDigits(text, first, 0).v

\* re.search(r"\b(100|[0-9]{1,2})\b", text): the first run of digits between
\* word boundaries that is 100 or has at most two digits; None when there is none
FirstScore(text) ==
    LET \* the lexemes that are not word characters for \b
        NonWord == {Q, EQ, LB, RB, LK, RK, COLON, COMMA, WS, MINUS, FENCE, PATHSEP}
        RunEnd(i) ==
            CHOOSE j \in i..Len(text) :
                /\ \A k \in i..j : text[k] \in Digits
                /\ j = Len(text) \/ text[j + 1] \notin Digits
        Matches(i) ==
            /\ text[i] \in Digits
            /\ i = 1 \/ text[i - 1] \in NonWord
            /\ RunEnd(i) = Len(text) \/ text[RunEnd(i) + 1] \in NonWord
            /\ \/ RunEnd(i) - i < 2
               \/ SubSeq(text, i, RunEnd(i)) = <<"1", "0", "0">>
        starts == {i \in DOMAIN text : Matches(i)}
        first == CHOOSE i \in starts : \A j \in starts : i <= j
    IN  IF starts = {} THEN None
        ELSE MkInt(ScanDigits(SubSeq(text, first, RunEnd(first)), 1, 0).v.n)

\* LLMAnalyzer.get_overall_score: [value, call]
get_overall_score(script, n) ==
    LET Of(call) ==
            [call |-> call,
             value |-> IF Truthy(call.result) THEN FirstScore(call.result.s) ELSE None]
    IN  Of(call_ollama_with_retry(script, n))

\* LLMAnalyzer.comprehensive_analysis
comprehensive_analysis(c, d, tc, resume_text, use_cache, script, score_script, n) ==
    LET kind == <<"comprehensive">>
        Failed(exc, c1, tc1, call) ==
            Outcome(ErrorRecord(<<"Comprehensive analysis failed: ", exc>>),
                    c1, d, tc1, <<call>>, <<>>)
        \* lines 1156-1175
        Built(c1, tc1, data, strengths, weaknesses, score, call) ==
            LET result ==
                    MkDict(<<Pair(<<"strengths">>, strengths),
                             Pair(<<"weaknesses">>, weaknesses),
                             Pair(<<"skills">>,
                                  DictGet(data, <<"skills">>,
                                          MkDict(<<Pair(<<"summary">>, MkStr(<<>>)),
                                                   Pair(<<"technical">>, MkList(<<>>)),
                                                   Pair(<<"soft_skills">>, MkList(<<>>))>>))),
                             Pair(<<"suggestions">>,
                                  DictGet(data, <<"suggestions">>,
                                          MkDict(<<Pair(<<"summary">>, MkStr(<<>>)),
                                                   Pair(<<"priority_improvements">>,
                                                        MkList(<<>>))>>))),
                             Pair(CachedKey, MkBool(FALSE)),
                             Pair(<<"overall_score">>, score.value)>>)
                Stored(w) ==
                    Outcome(result, w.cache, w.disk, tc1, <<call, score.call>>,
                            <<[text |-> resume_text, kind |-> kind, val |-> result]>>)
            IN  Stored(CacheSet(c1, d, resume_text, kind, result))
        \* lines 1156-1168
        Normal(c1, tc1, data, strengths, weaknesses, call) ==
            IF strengths.tag = "exception" THEN Failed(strengths.s[1], c1, tc1, call)
            ELSE IF weaknesses.tag = "exception" THEN Failed(weaknesses.s[1], c1, tc1, call)
            ELSE Built(c1, tc1, data, strengths, weaknesses,
                       get_overall_score(score_script, n), call)
        \* lines 1139-1153
        Parsed(c1, data, call) ==
            CASE PyIn(RawResponse, data) = "raise" -> Failed("TypeError", c1, tc, call)
              [] PyIn(RawResponse, data) = "yes" /\ ~IsDict(data) ->
                    Failed("AttributeError", c1, tc, call)
              [] PyIn(RawResponse, data) = "yes" /\ Cardinality(Keys(data)) = 1 ->
                    Outcome(NotValidJsonError(DictGet(data, RawResponse, None)),
                            c1, d, tc, <<call>>, <<>>)
              [] OTHER ->
                    IF PyIn(ErrorKey, data) = "yes"
                    THEN Outcome(data, c1, d, tc, <<call>>, <<>>)
                    ELSE IF ~IsDict(data)
                    THEN Failed("AttributeError", c1,
                                add_tokens(tc, estimate_tokens(Prompt(kind, resume_text)),
                                           estimate_tokens(call.result.s)), call)
                    ELSE Normal(c1,
                                add_tokens(tc, estimate_tokens(Prompt(kind, resume_text)),
                                           estimate_tokens(call.result.s)),
                                data,
                                normalize_strengths(DictGet(data, <<"strengths">>, MkDict(<<>>))),
                                normalize_weaknesses(DictGet(data, <<"weaknesses">>, MkDict(<<>>))),
                                call)
        Fresh(c1, call) ==
            IF ~Truthy(call.result) THEN Outcome(NoResponseError, c1, d, tc, <<call>>, <<>>)
            ELSE Parsed(c1, parse_response(call.result), call)
        Looked(g) ==
            IF g.raised THEN Outcome(Raised("AttributeError"), g.cache, d, tc, <<>>, <<>>)
            ELSE IF ~Truthy(g.result) THEN Fresh(g.cache, call_ollama_with_retry(script, n))
            ELSE IF IsDict(g.result)
            THEN Outcome(DictPut(g.result, CachedKey, MkBool(TRUE)), g.cache, d, tc, <<>>, <<>>)
            ELSE Outcome(Raised("TypeError"), g.cache, d, tc, <<>>, <<>>)
    IN  IF use_cache THEN Looked(CacheGet(c, d, resume_text, kind))
        ELSE Fresh(c, call_ollama_with_retry(script, n))

\* parsed and not isinstance(parsed.get("error"), str): "yes", "no" or "raise"
ParsedCheck(parsed) ==
    IF ~Truthy(parsed) THEN "no"
    ELSE IF ~IsDict(parsed) THEN "raise"
    ELSE IF IsStr(DictGet(parsed, ErrorKey, None)) THEN "no"
    ELSE "yes"

\* LLMAnalyzer.extract_detailed_skills
extract_detailed_skills(c, d, tc, resume_text, script, n) ==
    LET kind == <<"detailed_skills">>
        Stored(w, parsed, call) ==
            Outcome(parsed, w.cache, w.disk, tc, <<call>>,
                    <<[text |-> resume_text, kind |-> kind, val |-> parsed]>>)
        Parsed(c1, parsed, call) ==
            CASE ParsedCheck(parsed) = "yes" ->
                    Stored(CacheSet(c1, d, resume_text, kind, parsed), parsed, call)
              [] ParsedCheck(parsed) = "no" ->
                    Outcome(ErrorRecord(<<"Failed to parse skills extraction response">>),
                            c1, d, tc, <<call>>, <<>>)
              [] OTHER -> Outcome(ErrorRecord(<<"AttributeError">>), c1, d, tc, <<call>>, <<>>)
        Fresh(c1, call) == Parsed(c1, parse_response(call.result), call)
        Looked(g) ==
            IF g.raised THEN Outcome(Raised("AttributeError"), g.cache, d, tc, <<>>, <<>>)
            ELSE IF Truthy(g.result) THEN Outcome(g.result, g.cache, d, tc, <<>>, <<>>)
            ELSE Fresh(g.cache, call_ollama_with_retry(script, n))
    IN  Looked(CacheGet(c, d, resume_text, kind))

\* LLMAnalyzer.get_industry_skills
get_industry_skills(c, d, tc, script, n) ==
    LET Parsed(parsed, call) ==
            CASE ParsedCheck(parsed) = "yes" -> Outcome(parsed, c, d, tc, <<call>>, <<>>)
              [] ParsedCheck(parsed) = "no" ->
                    Outcome(ErrorRecord(<<"Failed to parse industry skills response">>),
                            c, d, tc, <<call>>, <<>>)
              [] OTHER -> Outcome(ErrorRecord(<<"AttributeError">>), c, d, tc, <<call>>, <<>>)
        Fresh(call) == Parsed(parse_response(call.result), call)
    IN  Fresh(call_ollama_with_retry(script, n))

\* LLMAnalyzer._format_skills_for_prompt raises: "" when it does not
FormatRaises(extracted_skills) ==
    IF ~IsDict(extracted_skills) THEN "AttributeError"
    ELSE IF \E i \in DOMAIN extracted_skills.kv :
                LET skills == extracted_skills.kv[i].v
                IN  /\ IsList(skills)
                    /\ \E j \in DOMAIN skills.el :
                          /\ IsDict(skills.el[j])
                          /\ LET years == DictGet(skills.el[j], <<"years_experience">>,
                                                  MkStr(<<>>))
                             IN  Truthy(years) /\ ~IsStr(years)
    THEN "TypeError"
    ELSE ""

\* LLMAnalyzer.analyze_skills_gap_from_extracted; target_role <<>> is no role and
\* now is datetime.now().isoformat()
analyze_skills_gap_from_extracted(c, d, tc, extracted_skills, target_role, experience_level, script, n, now) ==
    LET skills_key == IF target_role # <<>> THEN target_role \o <<"_">> \o experience_level
                      ELSE <<"inferred">>
        kind == <<"skills_gap_">> \o skills_key
        Enhanced(parsed) ==
            DictPut(DictPut(DictPut(DictPut(parsed,
                <<"target_role">>,
                    MkStr(IF target_role # <<>> THEN target_role ELSE <<"Professional">>)),
                <<"experience_level">>, MkStr(experience_level)),
                <<"analysis_date">>, MkStr(now)),
                <<"extracted_skills">>, extracted_skills)
        Stored(w, gap_analysis, call) ==
            Outcome(gap_analysis, w.cache, w.disk, tc, <<call>>,
                    <<[text |-> Dumps(extracted_skills), kind |-> kind, val |-> gap_analysis]>>)
        Parsed(parsed, call) ==
            CASE ParsedCheck(parsed) = "yes" ->
                    Stored(CacheSet(c, d, Dumps(extracted_skills), kind, Enhanced(parsed)),
                           Enhanced(parsed), call)
              [] ParsedCheck(parsed) = "no" ->
                    Outcome(MkDict(<<Pair(ErrorKey,
                                          MkStr(<<"Failed to parse gap analysis response">>)),
                                     Pair(RawResponse, call.result)>>),
                            c, d, tc, <<call>>, <<>>)
              [] OTHER -> Outcome(ErrorRecord(<<"AttributeError">>), c, d, tc, <<call>>, <<>>)
        Fresh(call) == Parsed(parse_response(call.result), call)
    IN  IF FormatRaises(extracted_skills) # ""
        THEN Outcome(Raised(FormatRaises(extracted_skills)), c, d, tc, <<>>, <<>>)
        ELSE Fresh(call_ollama_with_retry(script, n))

\* LLMAnalyzer.analyze_skills_gap, the second definition of the class, which is
\* the one in effect
analyze_skills_gap(c, d, tc, resume_text, target_role, experience_level, script, gap_script, n, now) ==
    LET Both(o1, o2) == [o2 EXCEPT !.calls = o1.calls \o o2.calls,
                                   !.sets = o1.sets \o o2.sets]
        Then(extracted) ==
            IF extracted.result.tag = "exception" THEN extracted
            ELSE Both(extracted,
                      analyze_skills_gap_from_extracted(
                          extracted.cache, extracted.disk, extracted.token_counter,
                          extracted.result, target_role, experience_level, gap_script, n, now))
    IN  Then(extract_detailed_skills(c, d, tc, resume_text, script, n))

(***************************************************************************)
(* The orchestrator's public operations run one after the other on one     *)
(* cache directory, with process restarts in between.  input is the list   *)
(* of the operations served so far.                                        *)
(***************************************************************************)
ReplyStrengths ==
    <<LB, Q, "strengths", Q, COLON, LK, LB, Q, "confidence", Q, COLON, "1", "0", "1",
      RB, RK, RB>>

\* the environment's answers to a prompt that asks for JSON
JsonScripts(n) ==
    {ScriptOf(n, "timeout", Failure("timeout"), n)}
    \cup {ScriptOf(0, "timeout", Ok(r), n) :
            r \in {ReplyObject, ReplyProse, ReplyArray, ReplyErrorObject, ReplyStrengths}}

\* the environment's answers to the prompt that asks for the overall score
ScoreScripts(n) ==
    {ScriptOf(n, "timeout", Failure("timeout"), n)}
    \cup {ScriptOf(0, "timeout", Ok(r), n) : r \in {ReplyNumber, ReplyProse}}

TargetRoles == {<<>>, <<"UI", PATHSEP, "UX">>}
ExtractedSkills == {PayloadObject, Sentinel(ReplyProse)}

InitOrch ==
    /\ cache = {}
    /\ disk = {}
    /\ token_counter = NewTokenCounter
    /\ max_retries = DEFAULT_MAX_RETRIES
    /\ last = NoRecord
    /\ input = <<>>

Serve(op, text, kind, use_cache, o) ==
    /\ input' = Append(input, op)
    /\ cache' = o.cache
    /\ disk' = o.disk
    /\ token_counter' = o.token_counter
    /\ last' = Record(op, text, kind, use_cache, o, cache, disk, token_counter)
    /\ UNCHANGED max_retries

GetStrengths ==
    /\ Len(input) < MaxOps
    /\ \E script \in JsonScripts(max_retries) :
           \E o \in {get_strengths(cache, disk, token_counter, TextA, script, max_retries)} :
               Serve("get_strengths", TextA, <<"strengths">>, TRUE, o)

GetWeaknesses ==
    /\ Len(input) < MaxOps
    /\ \E script \in JsonScripts(max_retries) :
           \E o \in {get_weaknesses(cache, disk, token_counter, TextA, script, max_retries)} :
               Serve("get_weaknesses", TextA, <<"weaknesses">>, TRUE, o)

GetSkills ==
    /\ Len(input) < MaxOps
    /\ \E script \in JsonScripts(max_retries) :
           \E o \in {get_skills(cache, disk, token_counter, TextA, script, max_retries)} :
               Serve("get_skills", TextA, <<"skills">>, TRUE, o)

GetImprovements ==
    /\ Len(input) < MaxOps
    /\ \E script \in JsonScripts(max_retries) :
           \E o \in {get_improvements(cache, disk, token_counter, TextA, script, max_retries)} :
               Serve("get_improvements", TextA, <<"suggestions">>, TRUE, o)

ComprehensiveAnalysis ==
    /\ Len(input) < MaxOps
    /\ \E use_cache \in BOOLEAN, script \in JsonScripts(max_retries),
          score_script \in ScoreScripts(max_retries) :
           \E o \in {comprehensive_analysis(cache, disk, token_counter, TextA, use_cache, script,
                                            score_script, max_retries)} :
               Serve("comprehensive_analysis", TextA, <<"comprehensive">>, use_cache, o)

ExtractDetailedSkills ==
    /\ Len(input) < MaxOps
    /\ \E script \in JsonScripts(max_retries) :
           \E o \in {extract_detailed_skills(cache, disk, token_counter, TextA, script,
                                             max_retries)} :
               Serve("extract_detailed_skills", TextA, <<"detailed_skills">>, TRUE, o)

GetIndustrySkills ==
    /\ Len(input) < MaxOps
    /\ \E target_role \in TargetRoles \ {<<>>}, script \in JsonScripts(max_retries) :
           \E o \in {get_industry_skills(cache, disk, token_counter, script, max_retries)} :
               Serve("get_industry_skills", <<>>, target_role, FALSE, o)

AnalyzeSkillsGapFromExtracted ==
    /\ Len(input) < MaxOps
    /\ \E extracted_skills \in ExtractedSkills, target_role \in TargetRoles,
          script \in JsonScripts(max_retries) :
           \E o \in {analyze_skills_gap_from_extracted(cache, disk, token_counter,
                           extracted_skills, target_role, <<"mid">>, script, max_retries,
                           <<"2025-01-01T00:00:00">>)} :
               Serve("analyze_skills_gap_from_extracted", Dumps(extracted_skills), target_role,
                     TRUE, o)

AnalyzeSkillsGap ==
    /\ Len(input) < MaxOps
    /\ \E target_role \in TargetRoles, script \in JsonScripts(max_retries),
          gap_script \in {s \in JsonScripts(max_retries) :
                             s[1].text \in {<<>>, ReplyObject, ReplyProse}} :
           \E o \in {analyze_skills_gap(cache, disk, token_counter, TextA, target_role,
                                        <<"mid">>, script, gap_script, max_retries,
                                        <<"2025-01-01T00:00:00">>)} :
               Serve("analyze_skills_gap", TextA, target_role, TRUE, o)

\* the process ends and a new LLMAnalyzer is constructed over the same cache directory
NewAnalyzer ==
    /\ Len(input) < MaxOps
    /\ Serve("restart", <<>>, <<>>, FALSE,
             Outcome(None, {}, disk, NewTokenCounter, <<>>, <<>>))

NextOrch ==
    \/ GetStrengths \/ GetWeaknesses \/ GetSkills \/ GetImprovements
    \/ ComprehensiveAnalysis \/ ExtractDetailedSkills \/ GetIndustrySkills
    \/ AnalyzeSkillsGapFromExtracted \/ AnalyzeSkillsGap \/ NewAnalyzer

SpecOrch == InitOrch /\ [][NextOrch]_vars

(***************************************************************************)
(* Claims about the public operations (SpecOrch).                          *)
(***************************************************************************)
ParsingOperations ==
    {"get_strengths", "get_weaknesses", "get_skills", "get_improvements",
     "comprehensive_analysis", "extract_detailed_skills", "get_industry_skills",
     "analyze_skills_gap_from_extracted", "analyze_skills_gap"}

\* the reply of call is a text in which the normaliser finds no structured data
Unparseable(call) ==
    /\ Truthy(call.result)
    /\ parse_response(call.result) = Sentinel(call.result.s)

\* C8: when a public operation has sent a prompt that asks for structured data
\* and the reply holds none, the record it returns has an error field.  (The
\* second call of comprehensive_analysis asks for a bare number, not for
\* structured data.)
UnparseableIsError ==
    (/\ last.op \in ParsingOperations
     /\ \E i \in DOMAIN last.calls :
           /\ last.op = "comprehensive_analysis" => i = 1
           /\ Unparseable(last.calls[i]))
    => IsError(last.result)

DETAILED_SKILLS == <<"detailed_skills">>

\* the run of analyze_skills_gap just served found no extracted skills in the
\* cache, so that its first inference call is the skill extraction
ExtractionRan ==
    /\ last'.op = "analyze_skills_gap"
    /\ ~Truthy(CacheGet(cache, disk, last'.text, DETAILED_SKILLS).result)
    /\ last'.calls # <<>>

ExtractionFailureAborts ==
    [][(ExtractionRan /\ ~Truthy(last'.calls[1].result))
       => (/\ last'.result = ErrorRecord(<<"Failed to parse skills extraction response">>)
           /\ Len(last'.calls) = 1)]_vars

\* C19: a second gap analysis of the same skills inventory, role and level,
\* right after one that stored its report, issues no inference call and
\* returns the stored report.
GapReportOnce ==
    [][(/\ last.op = "analyze_skills_gap_from_extracted"
        /\ last.sets # <<>>
        /\ last'.op = "analyze_skills_gap_from_extracted"
        /\ Len(input') = Len(input) + 1
        /\ last'.text = last.text
        /\ last'.kind = last.kind)
       => (last'.calls = <<>> /\ last'.result = last.result)]_vars

(***************************************************************************)
(* comprehensive_analysis alone, over process restarts: the operations of  *)
(* SpecOrch that read or write the entry of the comprehensive result.      *)
(***************************************************************************)
NextComprehensive == ComprehensiveAnalysis \/ NewAnalyzer

SpecComprehensive == InitOrch /\ [][NextComprehensive]_vars

COMPREHENSIVE == <<"comprehensive">>

\* the run of comprehensive_analysis just served found nothing in the cache,
\* or did not look
ComprehensiveMiss ==
    /\ last'.op = "comprehensive_analysis"
    /\ last'.use_cache => ~Truthy(CacheGet(cache, disk, last'.text, COMPREHENSIVE).result)

\* the reply of an inference call is the text of a JSON object
ParsesToObject(call) ==
    /\ Truthy(call.result)
    /\ IsDict(parse_response(call.result))
    /\ ~HasKey(parse_response(call.result), RawResponse)

\* the combined result is the only entry written, under the key of (text,
\* "comprehensive"), in both tiers
StoredAsOneEntry ==
    LET key == generate_key(last'.text, COMPREHENSIVE)
    IN  /\ last'.sets = <<[text |-> last'.text, kind |-> COMPREHENSIVE, val |-> last'.result]>>
        /\ HasEntry(cache', key) /\ Entry(cache', key).val = last'.result
        /\ HasEntry(disk', key) /\ Loads(Entry(disk', key).content).v = last'.result
        /\ Without(disk', key) = Without(disk, key)

\* C20 (as the code has it): on a miss, comprehensive_analysis that returns a
\* result without an error field has issued exactly two inference calls, the
\* first of which parsed to an object, and has stored the combined result as
\* one entry keyed by the text; one that returns an error has issued one call
\* and stored nothing, and this is the case when the first call fails.  A
\* cached call for the same text right after a stored one issues no call and
\* returns the stored entry, flagged as cached.
ComprehensiveOnce ==
    [][/\ ComprehensiveMiss =>
            /\ ~IsError(last'.result) =>
                  /\ Len(last'.calls) = 2
                  /\ ParsesToObject(last'.calls[1])
                  /\ StoredAsOneEntry
            /\ IsError(last'.result) =>
                  /\ Len(last'.calls) = 1
                  /\ last'.sets = <<>>
                  /\ disk' = disk
            /\ ~Truthy(last'.calls[1].result) => IsError(last'.result)
       /\ (/\ last.op = "comprehensive_analysis"
           /\ last.sets # <<>>
           /\ last'.op = "comprehensive_analysis"
           /\ Len(input') = Len(input) + 1
           /\ last'.use_cache
           /\ last'.text = last.text)
          => (/\ last'.calls = <<>>
              /\ last'.result = DictPut(last.result, CachedKey, MkBool(TRUE))
              /\ disk' = disk)]_vars

\* a cached call served the entry that the call before it had stored after two
\* inference calls
ComprehensiveOnceWitness ==
    /\ input = <<"comprehensive_analysis", "comprehensive_analysis">>
    /\ last.op = "comprehensive_analysis"
    /\ last.use_cache
    /\ last.calls = <<>>
    /\ ~IsError(last.result)
    /\ DictGet(last.result, CachedKey, None) = MkBool(TRUE)
    /\ HasEntry(disk, generate_key(last.text, COMPREHENSIVE))

\* C20 as stated: on a miss where the first reply parses to an object,
\* comprehensive_analysis issues exactly two inference calls and stores the
\* combined result.
ComprehensiveTwoCallsForEveryObject ==
    [][(/\ ComprehensiveMiss
        /\ last'.calls # <<>>
        /\ ParsesToObject(last'.calls[1]))
       => (Len(last'.calls) = 2 /\ StoredAsOneEntry)]_vars

(***************************************************************************)
(* The two normalisers alone: the parsed payload is drawn at the start and *)
(* normalised once.                                                        *)
(***************************************************************************)
\* what the service may put under "confidence"
RawConfidences ==
    {MkInt(0 - 1), MkInt(0), MkInt(57), MkInt(100), MkInt(101),
     MkStr(<<"8", "5">>), MkStr(<<MINUS, "5">>), MkStr(<<"1", "5", "0">>), MkStr(<<"x">>),
     MkStr(<<>>), None, MkBool(TRUE), MkList(<<>>),
     MkFloat(855), MkFloat(0 - 5), MkFloat(1005), NonFinite("inf"), NonFinite("nan")}

ItemWith(confidence) == MkDict(<<Pair(<<"confidence">>, confidence)>>)

\* an item with a confidence, an item without one, and an entry that is no object
RawItems == {ItemWith(x) : x \in RawConfidences} \cup {MkDict(<<>>), MkStr(<<"x">>)}

\* the lists of n items
RawLists(n) == [1..n -> RawItems]

\* the list under the normaliser's own key, under "items", or inside an object
\* under the normaliser's key
RawData(l) ==
    {MkDict(<<Pair(<<"strengths">>, MkList(l))>>),
     MkDict(<<Pair(<<"weaknesses">>, MkList(l))>>),
     MkDict(<<Pair(<<"items">>, MkList(l))>>),
     MkDict(<<Pair(<<"strengths">>, MkDict(<<Pair(<<"items">>, MkList(l))>>))>>)}

\* payloads with no list where one is expected
RawDataWithoutList ==
    {MkDict(<<>>), MkDict(<<Pair(<<"strengths">>, MkInt(1))>>),
     MkDict(<<Pair(<<"weaknesses">>, MkDict(<<Pair(<<"items">>, MkInt(1))>>))>>),
     MkDict(<<Pair(<<"weaknesses">>, MkDict(<<Pair(<<"items">>, MkStr(<<"x">>))>>))>>)}

NormalizeRecord(op, data, result) == [op |-> op, data |-> data, result |-> result]

InitNormalize ==
    /\ cache = {}
    /\ disk = {}
    /\ token_counter = NewTokenCounter
    /\ max_retries = DEFAULT_MAX_RETRIES
    /\ last = NormalizeRecord("none", None, None)
    /\ \/ input \in RawDataWithoutList
       \/ \E n \in 0..MaxItems : \E l \in RawLists(n) : input \in RawData(l)

NormalizeStrengths ==
    /\ last.op = "none"
    /\ last' = NormalizeRecord("normalize_strengths", input, normalize_strengths(input))
    /\ UNCHANGED <<cache, disk, token_counter, max_retries, input>>

NormalizeWeaknesses ==
    /\ last.op = "none"
    /\ last' = NormalizeRecord("normalize_weaknesses", input, normalize_weaknesses(input))
    /\ UNCHANGED <<cache, disk, token_counter, max_retries, input>>

NextNormalize == NormalizeStrengths \/ NormalizeWeaknesses

SpecNormalize == InitNormalize /\ [][NextNormalize]_vars

\* the items of a normalised payload
ItemsOf(normalized) == DictGet(normalized, <<"items">>, MkList(<<>>)).el

\* C12: every item that _normalize_strengths or _normalize_weaknesses produces
\* has an integer confidence between 0 and 100, whatever was under "confidence"
\* in the payload (a negative number, a number above 100, a value that is no
\* number, or nothing).
ConfidenceClamped ==
    (last.op \in {"normalize_strengths", "normalize_weaknesses"} /\ IsDict(last.result))
    => \A i \in DOMAIN ItemsOf(last.result) :
           LET item == ItemsOf(last.result)[i]
           IN  /\ IsDict(item)
               /\ HasKey(item, <<"confidence">>)
               /\ DictGet(item, <<"confidence">>, None).tag = "int"
               /\ DictGet(item, <<"confidence">>, None).n \in 0..100

\* a payload whose items carry 101 and a text that is no number: 100 and 0 come out
ConfidenceClampedWitness ==
    /\ last.op = "normalize_weaknesses"
    /\ last.data = MkDict(<<Pair(<<"weaknesses">>,
                                 MkList(<<ItemWith(MkInt(101)), ItemWith(MkStr(<<"x">>))>>))>>)
    /\ Len(ItemsOf(last.result)) = 2
    /\ DictGet(ItemsOf(last.result)[1], <<"confidence">>, None) = MkInt(100)
    /\ DictGet(ItemsOf(last.result)[2], <<"confidence">>, None) = MkInt(0)

(***************************************************************************)
(* Python floats: IEEE 754 binary64 with round-to-nearest, ties to even.   *)
(* A float is [neg, m, e] with the value (-1)^neg * m * 2^e, where m is an *)
(* odd natural number below 2^53 written in base 2^15, lowest limb first   *)
(* (<<>> is zero).  The scores stay far from the exponent limits, so       *)
(* overflow and subnormals are left out.                                   *)
(***************************************************************************)
LIMB == Pow2(15)

RECURSIVE Limbs(_)
Limbs(n) == IF n = 0 THEN <<>> ELSE <<n % LIMB>> \o Limbs(n \div LIMB)

RECURSIVE NatOf(_)
NatOf(a) == IF a = <<>> THEN 0 ELSE Head(a) + LIMB * NatOf(Tail(a))

\* a without its leading (highest) zero limbs
RECURSIVE Trim(_)
Trim(a) == IF a = <<>> \/ a[Len(a)] # 0 THEN a ELSE Trim(SubSeq(a, 1, Len(a) - 1))

LimbAt(a, i) == IF i \in DOMAIN a THEN a[i] ELSE 0

\* the number of bits of x < 2^15
BitLen15(x) == CHOOSE k \in 0..15 : x < Pow2(k) /\ (k = 0 \/ x >= Pow2(k - 1))

\* the number of bits of a, which has no leading zero limb
BitLen(a) == IF a = <<>> THEN 0 ELSE 15 * (Len(a) - 1) + BitLen15(a[Len(a)])

\* a * 2^k
ShiftL(a, k) ==
    LET q == k \div 15
        r == k % 15
    IN  Trim([i \in 1..(Len(a) + q + 1) |->
                 (LimbAt(a, i - q) % Pow2(15 - r)) * Pow2(r)
                     + (LimbAt(a, i - q - 1) \div Pow2(15 - r))])

\* a \div 2^k
ShiftR(a, k) ==
    LET q == k \div 15
        r == k % 15
    IN  Trim([i \in 1..Len(a) |->
                 (LimbAt(a, i + q) \div Pow2(r))
                     + (LimbAt(a, i + q + 1) % Pow2(r)) * Pow2(15 - r)])

\* a % 2^k # 0
LowBitsSet(a, k) ==
    \/ \E i \in 1..(k \div 15) : LimbAt(a, i) # 0
    \/ LimbAt(a, k \div 15 + 1) % Pow2(k % 15) # 0

RECURSIVE LAdd(_, _, _)
LAdd(a, b, carry) ==
    IF a = <<>> /\ b = <<>> THEN (IF carry = 1 THEN <<1>> ELSE <<>>)
    ELSE LET t == LimbAt(a, 1) + LimbAt(b, 1) + carry
         IN  <<t % LIMB>> \o LAdd(IF a = <<>> THEN a ELSE Tail(a),
                                  IF b = <<>> THEN b ELSE Tail(b), t \div LIMB)

\* a - b for a >= b
RECURSIVE LSub(_, _, _)
LSub(a, b, borrow) ==
    IF a = <<>> THEN <<>>
    ELSE LET t == Head(a) - LimbAt(b, 1) - borrow
         IN  <<(t + LIMB) % LIMB>> \o LSub(Tail(a), IF b = <<>> THEN b ELSE Tail(b),
                                           IF t < 0 THEN 1 ELSE 0)

\* a < b, both without leading zero limbs
LLess(a, b) ==
    \/ Len(a) < Len(b)
    \/ /\ Len(a) = Len(b)
       /\ \E i \in DOMAIN a :
             /\ a[i] < b[i]
             /\ \A j \in (i + 1)..Len(a) : a[j] = b[j]

\* a * x for one limb x
RECURSIVE LMul1(_, _, _)
LMul1(a, x, carry) ==
    IF a = <<>> THEN (IF carry = 0 THEN <<>> ELSE <<carry>>)
    ELSE LET t == Head(a) * x + carry
         IN  <<t % LIMB>> \o LMul1(Tail(a), x, t \div LIMB)

\* a * b
RECURSIVE LMul(_, _)
LMul(a, b) ==
    IF b = <<>> \/ a = <<>> THEN <<>>
    ELSE LAdd(LMul1(a, Head(b), 0), <<0>> \o LMul(a, Tail(b)), 0)

FZero == [neg |-> FALSE, m |-> <<>>, e |-> 0]

\* the float with this mantissa: trailing zero bits are moved into e
Norm(neg, a, e) ==
    LET m == Trim(a)
    IN  IF m = <<>> THEN FZero
        ELSE LET k == CHOOSE i \in 0..BitLen(m) : LowBitsSet(m, i + 1) /\ ~LowBitsSet(m, i)
             IN  [neg |-> neg, m |-> ShiftR(m, k), e |-> e + k]

\* the nearest float to a * 2^e (plus something below the last bit when
\* sticky), ties to even
Round(neg, a, e, sticky) ==
    LET m == Trim(a)
        k == BitLen(m) - 53
    IN  IF k <= 0 THEN Norm(neg, m, e)
        ELSE LET kept == ShiftR(m, k)
                 guard == LowBitsSet(ShiftR(m, k - 1), 1)
                 below == sticky \/ LowBitsSet(m, k - 1)
                 up == guard /\ (below \/ LowBitsSet(kept, 1))
             IN  Norm(neg, IF up THEN LAdd(kept, <<1>>, 0) ELSE kept, e + k)

\* float(n) for an int n
FloatOfInt(n) == Norm(n < 0, Limbs(IF n < 0 THEN 0 - n ELSE n), 0)

FNeg(a) == IF a.m = <<>> THEN a ELSE [a EXCEPT !.neg = ~a.neg]

\* a + b
FAdd(a, b) ==
    LET e == IF a.e < b.e THEN a.e ELSE b.e
        ma == ShiftL(a.m, a.e - e)
        mb == ShiftL(b.m, b.e - e)
    IN  IF a.neg = b.neg THEN Round(a.neg, LAdd(ma, mb, 0), e, FALSE)
        ELSE IF LLess(ma, mb) THEN Round(b.neg, LSub(mb, ma, 0), e, FALSE)
        ELSE Round(a.neg, LSub(ma, mb, 0), e, FALSE)

\* a * b
FMul(a, b) == Round(a.neg # b.neg, LMul(a.m, b.m), a.e + b.e, FALSE)

\* a < b
FLess(a, b) == LET d == FAdd(a, FNeg(b)) IN d.neg /\ d.m # <<>>

\* long division of the number num (limbs, highest first) by q < 2^16: the
\* quotient's limbs, lowest first, and the remainder
RECURSIVE LongDiv(_, _, _, _)
LongDiv(num, q, r, acc) ==
    IF num = <<>> THEN [m |-> acc, r |-> r]
    ELSE LET cur == r * LIMB + Head(num)
         IN  LongDiv(Tail(num), q, cur % q, <<cur \div q>> \o acc)

\* p / q for ints p >= 0 and 0 < q < 2^16 (true division), which is also the
\* value of a decimal literal such as 0.30 = 30 / 100
FDiv(p, q) ==
    LET top == Limbs(p)
        num == [i \in 1..Len(top) |-> top[Len(top) + 1 - i]] \o <<0, 0, 0, 0, 0>>
        Rounded(d) == Round(FALSE, d.m, 0 - 75, d.r # 0)
    IN  Rounded(LongDiv(num, q, 0, <<>>))

\* int(a): towards zero
FTrunc(a) ==
    LET n == IF a.e >= 0 THEN NatOf(ShiftL(a.m, a.e)) ELSE NatOf(ShiftR(a.m, 0 - a.e))
    IN  IF a.neg THEN 0 - n ELSE n

(***************************************************************************)
(* ResumeScorer.  The resume text is a string of ASCII characters.         *)
(***************************************************************************)
UPPERCASE == "ABCDEFGHIJKLMNOPQRSTUVWXYZ"
LOWERCASE == "abcdefghijklmnopqrstuvwxyz"

\* the character at i, "" outside the text
CharAt(s, i) == IF i \in 1..Len(s) THEN SubSeq(s, i, i) ELSE ""

\* c.lower() for one character
LowerChar(c) ==
    IF \E i \in 1..26 : CharAt(UPPERCASE, i) = c
    THEN CharAt(LOWERCASE, CHOOSE i \in 1..26 : CharAt(UPPERCASE, i) = c)
    ELSE c

\* s.lower()
RECURSIVE Lower(_)
Lower(s) ==
    IF Len(s) <= 1 THEN LowerChar(s)
    ELSE Lower(SubSeq(s, 1, Len(s) \div 2)) \o Lower(SubSeq(s, Len(s) \div 2 + 1, Len(s)))

\* needle occurs in hay at position i
OccursAt(hay, needle, i) ==
    i >= 1 /\ i + Len(needle) - 1 <= Len(hay) /\ SubSeq(hay, i, i + Len(needle) - 1) = needle

\* needle in hay; re.search of a pattern without metacharacters
Contains(hay, needle) == \E i \in 1..Len(hay) : OccursAt(hay, needle, i)

\* the weights of the five components, 0.25, 0.30, 0.15, 0.20 and 0.10, with
\* content quality at 0.35
WEIGHTS_ContentHeavy ==
    [completeness |-> FDiv(25, 100), content_quality |-> FDiv(35, 100),
     formatting |-> FDiv(15, 100), keyword_relevance |-> FDiv(20, 100),
     experience |-> FDiv(10, 100)]

\* ResumeScorer.WEIGHTS
WEIGHTS ==
    [completeness |-> FDiv(25, 100), content_quality |-> FDiv(30, 100),
     formatting |-> FDiv(15, 100), keyword_relevance |-> FDiv(20, 100),
     experience |-> FDiv(10, 100)]

\* ResumeScorer.ESSENTIAL_SECTIONS
ESSENTIAL_SECTIONS == <<"contact", "summary", "experience", "education", "skills">>

\* section_patterns of calculate_completeness_score: the alternatives of each
\* section's pattern, in the order of the dict
section_patterns ==
    <<[section |-> "contact",
       alternatives |-> {"contact", "phone", "email", "linkedin", "address"}],
      [section |-> "summary",
       alternatives |-> {"professional summary", "summary", "objective", "profile"}],
      [section |-> "experience",
       alternatives |-> {"work experience", "experience", "professional experience",
                         "employment"}],
      [section |-> "education",
       alternatives |-> {"education", "degree", "university", "college", "school"}],
      [section |-> "skills",
       alternatives |-> {"skills", "technical skills", "competencies", "expertise",
                         "proficiencies"}]>>

\* the completeness score with the patterns searched in the text as it is
calculate_completeness_score_case_sensitive(resume_text) ==
    LET Found(p) == \E a \in p.alternatives : Contains(resume_text, a)
        found == SelectSeq(section_patterns, Found)
    IN  [score |-> FTrunc(FMul(FDiv(Len(found), Len(ESSENTIAL_SECTIONS)), FloatOfInt(100))),
         found_sections |-> [i \in DOMAIN found |-> found[i].section]]

\* ResumeScorer.calculate_completeness_score: [score, found_sections]
calculate_completeness_score(resume_text) ==
    LET Searched(resume_lower) ==
            LET Found(p) == \E a \in p.alternatives : Contains(resume_lower, a)
                found == SelectSeq(section_patterns, Found)
            IN  [score |-> FTrunc(FMul(FDiv(Len(found), Len(ESSENTIAL_SECTIONS)),
                                       FloatOfInt(100))),
                 found_sections |-> [i \in DOMAIN found |-> found[i].section]]
    IN  Searched(Lower(resume_text))

\* the classification with the Good band starting at 76
classify_resume_good_above_75(score) ==
    IF score >= 90 THEN "Excellent"
    ELSE IF score > 75 THEN "Good"
    ELSE IF score >= 60 THEN "Average"
    ELSE "Needs Improvement"

\* ResumeScorer._classify_resume
classify_resume(score) ==
    IF score >= 90 THEN "Excellent"
    ELSE IF score >= 75 THEN "Good"
    ELSE IF score >= 60 THEN "Average"
    ELSE "Needs Improvement"

\* lines 483-490 of score_resume: the weighted overall score of five component
\* scores, an int
weighted_overall_score(completeness_score, content_quality_score, formatting_score, keyword_score, experience_score) ==
    FTrunc(FAdd(FAdd(FAdd(FAdd(FMul(FloatOfInt(completeness_score), WEIGHTS.completeness),
                               FMul(FloatOfInt(content_quality_score), WEIGHTS.content_quality)),
                          FMul(FloatOfInt(formatting_score), WEIGHTS.formatting)),
                     FMul(FloatOfInt(keyword_score), WEIGHTS.keyword_relevance)),
                FMul(FloatOfInt(experience_score), WEIGHTS.experience)))

\* character classes of the re module on ASCII text: \d, \w and \s
IsDigit(c) == c # "" /\ Contains("0123456789", c)
IsWordChar(c) == c # "" /\ (Contains(LOWERCASE, c) \/ Contains(UPPERCASE, c) \/ IsDigit(c) \/ c = "_")
IsSpace(c) == c \in {" ", "\n", "\t", "\r", "\f"}

\* int(c) for a digit c
DigitValue(c) == (CHOOSE i \in 1..10 : CharAt("0123456789", i) = c) - 1

\* the last position of the run of digits that starts at i
DigitsEnd(s, i) ==
    CHOOSE e \in i..Len(s) : (\A j \in i..e : IsDigit(CharAt(s, j))) /\ ~IsDigit(CharAt(s, e + 1))

\* ResumeScorer.ACTION_VERBS, the verbs of all categories
ACTION_VERBS ==
    {"led", "managed", "directed", "supervised", "coordinated", "spearheaded",
     "achieved", "accomplished", "delivered", "completed", "executed",
     "improved", "enhanced", "optimized", "streamlined", "accelerated",
     "created", "designed", "developed", "invented", "pioneered",
     "analyzed", "evaluated", "assessed", "identified", "determined",
     "collaborated", "partnered", "cooperated", "contributed", "supported"}

\* lines 119-127: the number of matches of \bverb\b in the lowered text, summed
\* over the verbs
action_verb_count(resume_lower) ==
    Cardinality({m \in ACTION_VERBS \X (1..Len(resume_lower)) :
                    /\ OccursAt(resume_lower, m[1], m[2])
                    /\ ~IsWordChar(CharAt(resume_lower, m[2] - 1))
                    /\ ~IsWordChar(CharAt(resume_lower, m[2] + Len(m[1])))})

\* the units of quantifiable_pattern
TIME_UNITS == {"years", "year", "months", "month", "weeks", "week", "days", "day", "hours", "hour"}

\* (?:\s*(?:years?|months?|weeks?|days?|hours?))\b matches at p
UnitAt(s, p) ==
    \E k \in p..Len(s) :
        /\ \A j \in p..(k - 1) : IsSpace(CharAt(s, j))
        /\ \E u \in TIME_UNITS : OccursAt(s, u, k) /\ ~IsWordChar(CharAt(s, k + Len(u)))

\* \b\$\d+[KM]?\b matches at i
DollarAt(s, i) ==
    /\ CharAt(s, i) = "$"
    /\ IsWordChar(CharAt(s, i - 1))
    /\ IsDigit(CharAt(s, i + 1))
    /\ LET Ends(e) ==
               \/ CharAt(s, e + 1) \in {"K", "M"} /\ ~IsWordChar(CharAt(s, e + 2))
               \/ ~IsWordChar(CharAt(s, e + 1))
       IN  Ends(DigitsEnd(s, i + 1))

\* \b\d+%\b or \b\d+\+?(?:\s*unit)?\b matches at i
NumberAt(s, i) ==
    /\ IsDigit(CharAt(s, i))
    /\ ~IsWordChar(CharAt(s, i - 1))
    /\ LET Ends(e) ==
               \/ CharAt(s, e + 1) = "%" /\ IsWordChar(CharAt(s, e + 2))
               \/ CharAt(s, e + 1) = "+" /\ (UnitAt(s, e + 2) \/ IsWordChar(CharAt(s, e + 2)))
               \/ UnitAt(s, e + 1)
               \/ ~IsWordChar(CharAt(s, e + 1))
       IN  Ends(DigitsEnd(s, i))

\* line 134: len(re.findall(quantifiable_pattern, resume_text)); a number right
\* after a matched dollar sign is part of that match
quantifiable_count(resume_text) ==
    Cardinality({i \in 1..Len(resume_text) :
                    \/ DollarAt(resume_text, i)
                    \/ NumberAt(resume_text, i) /\ ~DollarAt(resume_text, i - 1)})

\* line 208: len(resume_text.split())
word_count(resume_text) ==
    Cardinality({i \in 1..Len(resume_text) :
                    ~IsSpace(CharAt(resume_text, i)) /\ (i = 1 \/ IsSpace(CharAt(resume_text, i - 1)))})

\* line 233: len(re.findall(r'[-*]', resume_text)), on ASCII text
bullet_count(resume_text) ==
    Cardinality({i \in 1..Len(resume_text) : CharAt(resume_text, i) \in {"-", "*"}})

\* line 234: resume_text.count('\n')
newline_count(resume_text) ==
    Cardinality({i \in 1..Len(resume_text) : CharAt(resume_text, i) = "\n"})

\* line 250: len(re.findall(r'\n\n+', resume_text)), the runs of two or more newlines
double_newlines(resume_text) ==
    Cardinality({i \in 1..Len(resume_text) :
                    /\ CharAt(resume_text, i) = "\n"
                    /\ CharAt(resume_text, i + 1) = "\n"
                    /\ CharAt(resume_text, i - 1) # "\n"})

\* a character outside [a-zA-Z0-9\s\n\-*.()\[\]] (line 265)
IsSpecial(c) ==
    ~(\/ IsWordChar(c) /\ c # "_"
      \/ IsSpace(c)
      \/ c \in {"-", "*", ".", "(", ")", "[", "]"})

\* line 265: len(re.findall(r'[^a-zA-Z0-9\s\n\-*.()\[\]]', resume_text))
special_chars(resume_text) ==
    Cardinality({i \in 1..Len(resume_text) : IsSpecial(CharAt(resume_text, i))})

\* ResumeScorer.calculate_formatting_score: [score, word_count]
calculate_formatting_score(resume_text) ==
    LET Length(wc) == IF 400 <= wc /\ wc <= 2000 THEN 100
                      ELSE IF 200 <= wc /\ wc < 400 THEN 70
                      ELSE IF 2000 < wc /\ wc <= 3000 THEN 60
                      ELSE 40
        Consistency(bullets, newlines) ==
            IF bullets > 0 /\ newlines > 20 THEN 90
            ELSE IF bullets > 0 \/ newlines > 15 THEN 75
            ELSE 50
        Clarity(dn) == IF dn >= 4 THEN 95 ELSE IF dn >= 2 THEN 80 ELSE 50
        Special(special_char_ratio) ==
            IF FLess(special_char_ratio, FDiv(5, 100)) THEN 95
            ELSE IF FLess(special_char_ratio, FDiv(15, 100)) THEN 80
            ELSE 50
        Average(length_score, consistency_score, section_clarity_score, special_char_score) ==
            FTrunc(FDiv(length_score + consistency_score + section_clarity_score
                            + special_char_score, 4))
    IN  [score |-> Average(Length(word_count(resume_text)),
                           Consistency(bullet_count(resume_text), newline_count(resume_text)),
                           Clarity(double_newlines(resume_text)),
                           Special(FDiv(special_chars(resume_text),
                                        IF Len(resume_text) > 1 THEN Len(resume_text) ELSE 1))),
         word_count |-> word_count(resume_text)]

\* \s*(?:\+)?\s*(?:years?|yrs?) matches at p of the lowered text
YearsTailAt(lower, p) ==
    \E k \in p..Len(lower), plus \in {0, 1} :
        /\ \E q \in p..k :
              /\ \A j \in p..(q - 1) : IsSpace(CharAt(lower, j))
              /\ plus = 1 => CharAt(lower, q) = "+"
              /\ \A j \in (q + plus)..(k - 1) : IsSpace(CharAt(lower, j))
              /\ q + plus <= k
        /\ (OccursAt(lower, "year", k) \/ OccursAt(lower, "yr", k))

\* lines 382-389: the numbers re.findall(year_pattern, resume_text, re.IGNORECASE)
\* yields, as ints
years_mentioned(resume_text) ==
    LET In(lower) ==
            LET Two(i) == /\ IsDigit(CharAt(lower, i)) /\ IsDigit(CharAt(lower, i + 1))
                          /\ YearsTailAt(lower, i + 2)
                One(i) == IsDigit(CharAt(lower, i)) /\ YearsTailAt(lower, i + 1)
            IN  {IF Two(i)
                 THEN 10 * DigitValue(CharAt(lower, i)) + DigitValue(CharAt(lower, i + 1))
                 ELSE DigitValue(CharAt(lower, i)) :
                   i \in {j \in 1..Len(lower) : (Two(j) \/ One(j)) /\ ~(j > 1 /\ Two(j - 1))}}
    IN  In(Lower(resume_text))

\* keywords_to_search of _extract_tech_keywords
TECH_KEYWORDS ==
    {"python", "java", "javascript", "c++", "c#", "go", "rust", "php",
     "react", "angular", "vue", "node", "django", "flask", "spring",
     "sql", "mysql", "postgresql", "mongodb", "redis", "elasticsearch",
     "aws", "azure", "gcp", "docker", "kubernetes", "jenkins", "git",
     "agile", "scrum", "jira", "linux", "windows", "machine learning",
     "ai", "tensorflow", "pytorch", "pandas", "numpy", "api", "rest",
     "microservices", "cloud", "devops", "ci/cd"}

\* ResumeScorer._extract_tech_keywords: the number of keywords found
extract_tech_keywords(text) ==
    LET In(text_lower) == Cardinality({k \in TECH_KEYWORDS : Contains(text_lower, k)})
    IN  In(Lower(text))

(***************************************************************************)
(* The scores that consult the model.  A call self.llm.query(prompt) is    *)
(* Ok(text) when the analyzer object answers with a text and               *)
(* Failure("exception") when the call raises; LLMAnalyzer defines no       *)
(* method query, so with it every call raises AttributeError.  A score is  *)
(* [raised, score, ...]: raised stands for a TypeError that leaves the     *)
(* method.                                                                 *)
(***************************************************************************)
QueryRaises == Failure("exception")

\* re.search(r'\{.*\}', llm_response, re.DOTALL) and json.loads of the match:
\* [found, ok, data]
QueryJson(reply) ==
    LET Decoded(m) ==
            IF ~m.found THEN [found |-> FALSE, ok |-> FALSE, data |-> MkDict(<<>>)]
            ELSE LET Of(r) == [found |-> TRUE, ok |-> r.ok,
                               data |-> IF r.ok THEN r.v ELSE MkDict(<<>>)]
                 IN  Of(Loads(m.text))
    IN  Decoded(RegexBraces(reply.text))

\* v * f for a value v and a float f: [ok, f]; a value that is no number raises
\* TypeError
TimesFloat(v, f) ==
    IF v.tag \in {"int", "bool"} THEN [ok |-> TRUE, f |-> FMul(FloatOfInt(v.n), f)]
    ELSE [ok |-> FALSE, f |-> FZero]

\* the number of characters of a text of lexemes
RECURSIVE CharCount(_)
CharCount(s) == IF s = <<>> THEN 0 ELSE Len(Head(s)) + CharCount(Tail(s))

\* len(v): [ok, n]
PyLen(v) ==
    CASE v.tag = "str" -> [ok |-> TRUE, n |-> CharCount(v.s)]
      [] v.tag = "list" -> [ok |-> TRUE, n |-> Len(v.el)]
      [] v.tag = "dict" -> [ok |-> TRUE, n |-> Len(v.kv)]
      [] OTHER -> [ok |-> FALSE, n |-> 0]

Min(a, b) == IF a < b THEN a ELSE b

\* llm_score with 100 in place of 50 when there is no usable reply
content_llm_score_FullMarks(reply) ==
    IF reply.kind # "ok" THEN MkInt(100)
    ELSE LET Of(j) == IF j.found /\ j.ok THEN DictGet(j.data, <<"score">>, MkInt(100))
                      ELSE MkInt(100)
         IN  Of(QueryJson(reply))

\* lines 159-181: llm_score, 50 unless a reply decodes to an object
content_llm_score(reply) ==
    IF reply.kind # "ok" THEN MkInt(50)
    ELSE LET Of(j) == IF j.found /\ j.ok THEN DictGet(j.data, <<"score">>, MkInt(50))
                      ELSE MkInt(50)
         IN  Of(QueryJson(reply))

\* line 188: score = int(llm_score * 0.6 + manual_score * 0.4)
content_blend(llm_score, manual_score) ==
    LET Blend(part) == [raised |-> ~part.ok,
                        score |-> IF part.ok
                                  THEN FTrunc(FAdd(part.f, FMul(manual_score, FDiv(4, 10))))
                                  ELSE 0]
    IN  Blend(TimesFloat(llm_score, FDiv(6, 10)))

\* ResumeScorer.calculate_content_quality_score
calculate_content_quality_score(resume_text, reply) ==
    LET Scored(action_verb_score, achievement_score) ==
            content_blend(content_llm_score(reply),
                          FDiv(action_verb_score + achievement_score, 2))
    IN  Scored(Min(100, action_verb_count(Lower(resume_text)) * 15),
               Min(100, quantifiable_count(resume_text) * 10))

\* lines 341-357: the score of keyword_count found and missing_count missing
\* keywords
keyword_score_of(keyword_count, missing_count) ==
    LET Base == IF keyword_count = 0 THEN 40
                ELSE FTrunc(FMul(FDiv(keyword_count, keyword_count + missing_count),
                                 FloatOfInt(100)))
    IN  IF keyword_count >= 15 THEN Min(100, Base + 15) ELSE Base

\* ResumeScorer.calculate_keyword_relevance_score; target_keywords is a
\* sequence of strings, empty for None
calculate_keyword_relevance_score(resume_text, target_keywords, reply) ==
    LET Result(found, missing) ==
            [raised |-> ~(found.ok /\ missing.ok),
             score |-> IF found.ok /\ missing.ok THEN keyword_score_of(found.n, missing.n) ELSE 0,
             keyword_count |-> found.n,
             missing_count |-> missing.n]
        Counted(n, m) == Result([ok |-> TRUE, n |-> n], [ok |-> TRUE, n |-> m])
        Fallback == Counted(extract_tech_keywords(resume_text), 0)
        FromReply(j) ==
            IF ~j.found \/ ~j.ok THEN Fallback
            ELSE Result(PyLen(DictGet(j.data, <<"found_keywords">>, MkList(<<>>))),
                        PyLen(DictGet(j.data, <<"missing_keywords">>, MkList(<<>>))))
        Provided(resume_lower) ==
            LET found == {i \in DOMAIN target_keywords :
                             \E keyword_lower \in {Lower(target_keywords[i])} :
                                 Contains(resume_lower, keyword_lower)}
            IN  Counted(Cardinality(found), Len(target_keywords) - Cardinality(found))
    IN  IF target_keywords = <<>>
        THEN IF reply.kind # "ok" THEN Fallback ELSE FromReply(QueryJson(reply))
        ELSE CHOOSE result \in {Provided(resume_lower) : resume_lower \in {Lower(resume_text)}} : TRUE

\* line 428: the dictionary of progression scores with its default
progression_score(career_progression) ==
    CASE career_progression = MkStr(<<"entry">>) -> 60
      [] career_progression = MkStr(<<"mid">>) -> 80
      [] career_progression = MkStr(<<"senior">>) -> 95
      [] OTHER -> 50

\* lines 427-430: years_score, progression_score and the weighted score; a
\* years value that is no number, an unhashable progression and a coherence
\* that is no number raise TypeError
experience_blend(years_of_experience, career_progression, coherence_score) ==
    LET years_ok == years_of_experience.tag \in {"int", "bool"}
        hashable == career_progression.tag \notin {"list", "dict"}
        years_score == IF years_of_experience.n * 10 < 0 THEN 0
                       ELSE Min(100, years_of_experience.n * 10)
        Blend(part) ==
            [raised |-> ~(years_ok /\ hashable /\ part.ok),
             score |-> IF years_ok /\ hashable /\ part.ok
                       THEN FTrunc(FAdd(FAdd(FMul(FloatOfInt(years_score), FDiv(4, 10)),
                                             FMul(FloatOfInt(progression_score(career_progression)),
                                                  FDiv(3, 10))),
                                        part.f))
                       ELSE 0]
    IN  Blend(TimesFloat(coherence_score, FDiv(3, 10)))

\* ResumeScorer.calculate_experience_score
calculate_experience_score(resume_text, reply) ==
    LET Highest(years) == IF years = {} THEN 0
                          ELSE CHOOSE y \in years : \A z \in years : z <= y
        Unassessed(years) == experience_blend(MkInt(years), MkStr(<<"unknown">>), MkInt(50))
        Assessed(years, data) ==
            experience_blend(IF Truthy(DictGet(data, <<"years_detected">>, None))
                             THEN DictGet(data, <<"years_detected">>, None)
                             ELSE MkInt(years),
                             DictGet(data, <<"progression">>, MkStr(<<"unknown">>)),
                             DictGet(data, <<"coherence">>, MkInt(50)))
        FromReply(years, j) ==
            IF j.found /\ j.ok THEN Assessed(years, j.data) ELSE Unassessed(years)
        With(years) ==
            IF reply.kind # "ok" THEN Unassessed(years) ELSE FromReply(years, QueryJson(reply))
    IN  With(Highest(years_mentioned(resume_text)))

\* ResumeScorer.score_resume: [raised, scores, overall_score, classification],
\* scores in the order completeness, content quality, formatting, keyword
\* relevance, experience
score_resume(resume_text, target_keywords, content_reply, keyword_reply, experience_reply) ==
    LET Report(scores) ==
            LET Classified(overall_score) ==
                    [raised |-> FALSE, scores |-> scores, overall_score |-> overall_score,
                     classification |-> classify_resume(overall_score)]
            IN  Classified(weighted_overall_score(scores[1], scores[2], scores[3],
                                                  scores[4], scores[5]))
        Scored(completeness, content, formatting, keyword, experience) ==
            IF content.raised \/ keyword.raised \/ experience.raised
            THEN [raised |-> TRUE, scores |-> <<>>, overall_score |-> 0, classification |-> ""]
            ELSE Report(<<completeness.score, content.score, formatting.score,
                          keyword.score, experience.score>>)
    IN  Scored(calculate_completeness_score(resume_text),
               calculate_content_quality_score(resume_text, content_reply),
               calculate_formatting_score(resume_text),
               calculate_keyword_relevance_score(resume_text, target_keywords, keyword_reply),
               calculate_experience_score(resume_text, experience_reply))

\* _generate_improvement_suggestions (lines 552-577): the branch for
\* completeness (lines 557-560) fills the local list missing and appends
\* nothing to suggestions
generate_improvement_suggestions(completeness, content, formatting, keyword, experience) ==
    LET s1 == IF content < 75
              THEN <<"Improve content quality by using more action verbs and adding quantifiable achievements (e.g., 'increased sales by 25%')">>
              ELSE <<>>
        s2 == IF formatting < 75
              THEN s1 \o <<"Improve formatting: Use consistent bullet points, maintain proper spacing between sections, and keep to 1-2 pages">>
              ELSE s1
        s3 == IF keyword < 75
              THEN s2 \o <<"Include more industry-relevant keywords and technical skills that match your target role">>
              ELSE s2
        s4 == IF experience < 75
              THEN s3 \o <<"Highlight career progression and demonstrate growth in your roles; clarify years of experience">>
              ELSE s3
    IN  IF s4 = <<>>
        THEN <<"Your resume is performing well! Consider fine-tuning the weaker components for a perfect score.">>
        ELSE s4

(***************************************************************************)
(* The scorer: one operation of ResumeScorer is performed on arguments     *)
(* drawn for it.  The scorer keeps no state between operations.            *)
(***************************************************************************)
\* words a resume may hold, one to a line
ResumeWords ==
    <<"Email: a@b.c", "Profile", "Work Experience", "EDUCATION", "Skills",
      "experienced", "Objective-C", "x">>

RECURSIVE JoinLines(_)
JoinLines(words) ==
    IF words = <<>> THEN ""
    ELSE IF Len(words) = 1 THEN words[1]
    ELSE words[1] \o "\n" \o JoinLines(Tail(words))

\* the lines of ResumeWords whose index is in chosen
TextOfWords(chosen) ==
    LET Chosen(i) == i \in chosen
    IN  JoinLines([k \in DOMAIN SelectSeq([i \in DOMAIN ResumeWords |-> i], Chosen) |->
                      ResumeWords[SelectSeq([i \in DOMAIN ResumeWords |-> i], Chosen)[k]]])

ScorerTexts == {TextOfWords(chosen) : chosen \in SUBSET DOMAIN ResumeWords}

\* component scores from which the overall score is blended
ComponentSamples == {0, 11, 60, 75, 100}

ScorerRecord(op, args, result) == [op |-> op, args |-> args, result |-> result]

InitScorer ==
    /\ cache = {}
    /\ disk = {}
    /\ token_counter = NewTokenCounter
    /\ max_retries = DEFAULT_MAX_RETRIES
    /\ last = ScorerRecord("none", <<>>, <<>>)
    /\ input = <<>>

CalculateCompleteness ==
    /\ last.op = "none"
    /\ \E resume_text \in ScorerTexts :
          last' = ScorerRecord("calculate_completeness_score", resume_text,
                               calculate_completeness_score(resume_text))
    /\ UNCHANGED <<cache, disk, token_counter, max_retries, input>>

ClassifyResume ==
    /\ last.op = "none"
    /\ \E score \in (0 - ScoreMargin)..(100 + ScoreMargin) :
          last' = ScorerRecord("classify_resume", score, classify_resume(score))
    /\ UNCHANGED <<cache, disk, token_counter, max_retries, input>>

\* lines 483-490 of score_resume on five component scores
WeightedOverall ==
    /\ last.op = "none"
    /\ \E scores \in [1..5 -> ComponentSamples] :
          last' = ScorerRecord("weighted_overall_score", scores,
                               weighted_overall_score(scores[1], scores[2], scores[3],
                                                      scores[4], scores[5]))
    /\ UNCHANGED <<cache, disk, token_counter, max_retries, input>>

\* resume texts for a whole scoring run
ScoreResumeTexts ==
    {"",
     "Led a team of 5 for 3 years; improved sales 50%",
     "Skills: go\nEDUCATION\nWork Experience 25 years",
     "12+ years python, java, sql and docker. Managed 100 people\n\n- achieved x$5K\n\n- delivered 7 yrs"}

TargetKeywordChoices == {<<>>, <<"Python", "Rust">>}

\* the reply {"name": value} with the value given as lexemes
OneField(name, value) == <<LB, Q, name, Q, COLON, WS>> \o value \o <<RB>>

\* outcomes of the three calls of self.llm.query
ContentReplies ==
    {QueryRaises, Ok(ReplyProse), Ok(ReplyEmptyObject),
     Ok(OneField("score", <<"8", "5">>)),
     Ok(OneField("score", <<"1", "0", "0", "0">>)),
     Ok(OneField("score", <<MINUS, "5", "0">>)),
     Ok(OneField("score", <<Q, "85", Q>>))}
KeywordReplies ==
    {QueryRaises, Ok(ReplyProse),
     Ok(<<LB, Q, "found_keywords", Q, COLON, WS, LK, Q, "a", Q, COMMA, Q, "b", Q, RK, COMMA, WS,
          Q, "missing_keywords", Q, COLON, WS, LK, Q, "c", Q, RK, RB>>),
     Ok(OneField("found_keywords", <<"null">>))}
ExperienceReplies ==
    {QueryRaises, Ok(ReplyProse),
     Ok(<<LB, Q, "years_detected", Q, COLON, WS, "1", "0", "0", "0", COMMA, WS,
          Q, "progression", Q, COLON, WS, Q, "senior", Q, COMMA, WS,
          Q, "coherence", Q, COLON, WS, "9", "0", RB>>),
     Ok(OneField("coherence", <<"1", "0", "0", "0">>)),
     Ok(OneField("coherence", <<MINUS, "5", "0">>)),
     Ok(OneField("years_detected", <<Q, "5", Q>>))}

\* score_resume(resume_text, target_keywords) with the outcomes of its model
\* calls
ScoreResume ==
    /\ last.op = "none"
    /\ \E resume_text \in ScoreResumeTexts, target_keywords \in TargetKeywordChoices,
          content_reply \in ContentReplies, keyword_reply \in KeywordReplies,
          experience_reply \in ExperienceReplies :
          \E report \in {score_resume(resume_text, target_keywords, content_reply,
                                      keyword_reply, experience_reply)} :
              last' = ScorerRecord("score_resume",
                                   [resume_text |-> resume_text,
                                    target_keywords |-> target_keywords,
                                    replies |-> <<content_reply, keyword_reply, experience_reply>>],
                                   report)
    /\ UNCHANGED <<cache, disk, token_counter, max_retries, input>>

\* a target keyword list of n keywords of which the first f occur in
\* KeywordText
RECURSIVE Repeat(_, _)
Repeat(word, k) == IF k = 0 THEN <<>> ELSE <<word>> \o Repeat(word, k - 1)

KeywordText == "Skills: Go, SQL and Docker"

TargetKeywords(n, f) == Repeat("SQL", f) \o Repeat("Rust", n - f)

\* calculate_keyword_relevance_score with a supplied keyword list; no model
\* call is made on this path
CalculateKeywordRelevance ==
    /\ last.op = "none"
    /\ \E n \in 1..MaxKeywords : \E f \in 0..n :
          \E report \in {calculate_keyword_relevance_score(KeywordText, TargetKeywords(n, f),
                                                          QueryRaises)} :
              last' = ScorerRecord("calculate_keyword_relevance_score",
                                   [resume_text |-> KeywordText, n |-> n, f |-> f], report)
    /\ UNCHANGED <<cache, disk, token_counter, max_retries, input>>

\* sub-scores around the cutoffs of the suggestions
SuggestionSamples == {60, 74, 75, 79, 80, 100}

\* _generate_improvement_suggestions on five sub-scores
GenerateImprovementSuggestions ==
    /\ last.op = "none"
    /\ \E scores \in [1..5 -> SuggestionSamples] :
          \E suggestions \in {generate_improvement_suggestions(scores[1], scores[2], scores[3],
                                                               scores[4], scores[5])} :
              last' = ScorerRecord("generate_improvement_suggestions", scores, suggestions)
    /\ UNCHANGED <<cache, disk, token_counter, max_retries, input>>

NextScorer ==
    \/ CalculateCompleteness
    \/ ClassifyResume
    \/ WeightedOverall
    \/ ScoreResume
    \/ GenerateImprovementSuggestions
    \/ CalculateKeywordRelevance

SpecScorer == InitScorer /\ [][NextScorer]_vars

(***************************************************************************)
(* Claims about the scorer (SpecScorer).                                   *)
(***************************************************************************)
\* a + b without rounding, for a and b not negative
ExactSum(a, b) ==
    LET e == IF a.e < b.e THEN a.e ELSE b.e
    IN  Norm(FALSE, LAdd(ShiftL(a.m, a.e - e), ShiftL(b.m, b.e - e), 0), e)

\* the sum of the five weights as real numbers
WeightTotal ==
    ExactSum(ExactSum(ExactSum(ExactSum(WEIGHTS.completeness, WEIGHTS.content_quality),
                               WEIGHTS.formatting),
                      WEIGHTS.keyword_relevance),
             WEIGHTS.experience)

\* C13: the five weights sum to exactly 1; the overall score of the component
\* scores 100, 100, 100, 100, 100 is 100 and that of 0, 0, 0, 0, 0 is 0.
WeightPartition ==
    /\ WeightTotal = FloatOfInt(1)
    /\ last.op = "weighted_overall_score"
       => /\ (\A i \in 1..5 : last.args[i] = 100) => last.result = 100
          /\ (\A i \in 1..5 : last.args[i] = 0) => last.result = 0

\* the overall score of five component scores of 100 has been computed
WeightPartitionWitness ==
    /\ last.op = "weighted_overall_score"
    /\ last.args = <<100, 100, 100, 100, 100>>
    /\ last.result = 100

\* C14: the classification is defined for every integer score and follows the
\* bands: at least 90 Excellent, 75 to 89 Good, 60 to 74 Average, below 60
\* Needs Improvement.
ClassificationBands ==
    last.op = "classify_resume"
    => /\ last.args >= 90 => last.result = "Excellent"
       /\ (last.args >= 75 /\ last.args < 90) => last.result = "Good"
       /\ (last.args >= 60 /\ last.args < 75) => last.result = "Average"
       /\ last.args < 60 => last.result = "Needs Improvement"

\* the lowest score of the Good band has been classified
ClassificationBandsWitness ==
    /\ last.op = "classify_resume"
    /\ last.args = 75
    /\ last.result = "Good"

\* the sections whose pattern occurs in the lowered text
SectionsIn(text) ==
    LET In(lower) ==
            {p \in {section_patterns[i] : i \in DOMAIN section_patterns} :
                \E a \in p.alternatives, i \in 1..Len(lower) : OccursAt(lower, a, i)}
    IN  In(Lower(text))

\* C16: completeness is the number of the five section patterns found in the
\* text, divided by 5, times 100, rounded down; a text with the experience,
\* education and skills patterns and neither of the other two scores 60.
CompletenessCountsSections ==
    last.op = "calculate_completeness_score"
    => /\ last.result.score = (100 * Cardinality(SectionsIn(last.args))) \div 5
       /\ {p.section : p \in SectionsIn(last.args)} = {"experience", "education", "skills"}
          => last.result.score = 60

\* the three-section text has been scored
CompletenessCountsSectionsWitness ==
    /\ last.op = "calculate_completeness_score"
    /\ last.args = "Work Experience\nEDUCATION\nSkills"
    /\ last.result.found_sections = <<"experience", "education", "skills">>
    /\ last.result.score = 60

\* C15: whatever the outcomes of the model calls, score_resume returns a
\* report in which each of the five sub-scores and the overall score is an
\* integer from 0 to 100.
ScoresInRange ==
    last.op = "score_resume" =>
        /\ ~last.result.raised
        /\ \A i \in 1..5 : last.result.scores[i] \in 0..100
        /\ last.result.overall_score \in 0..100

\* the sub-scores, by position, that are below their cutoff: 80 for
\* completeness (1), 75 for content quality, formatting, keyword relevance and
\* experience (2 to 5)
BelowCutoff(scores) ==
    {i \in 1..5 : scores[i] < (IF i = 1 THEN 80 ELSE 75)}

\* C21: the suggestion list holds one suggestion for each sub-score below its
\* cutoff (completeness below 80, the other four below 75) and none for a
\* sub-score at or above it; the single 'performing well' message is returned
\* only when no sub-score is below its cutoff.
SuggestionPerLowSubScore ==
    last.op = "generate_improvement_suggestions" =>
        /\ BelowCutoff(last.args) # {} => Len(last.result) = Cardinality(BelowCutoff(last.args))
        /\ last.result[1] = "Your resume is performing well! Consider fine-tuning the weaker components for a perfect score."
           => BelowCutoff(last.args) = {}

\* C22: with a supplied list of n >= 1 target keywords of which f occur in the
\* text, keyword relevance is floor(100 * f / n), raised by 15 and capped at
\* 100 when f >= 15; for every f from 0 to n.
KeywordRatio ==
    last.op = "calculate_keyword_relevance_score" =>
        /\ ~last.result.raised
        /\ last.result.keyword_count = last.args.f
        /\ last.result.score =
              IF last.args.f >= 15
              THEN Min(100, (100 * last.args.f) \div last.args.n + 15)
              ELSE (100 * last.args.f) \div last.args.n

(***************************************************************************)
(* TokenCounter.add_tokens called by two threads on one instance.  The     *)
(* method takes no lock; a statement self.x += v is a read of the          *)
(* attribute followed by a write of the sum, and the interpreter may       *)
(* switch threads between the two.  last holds, per thread, the position   *)
(* in the method, the value read and the token counts of the call.         *)
(***************************************************************************)
Threads == {1, 2}

\* (prompt_tokens, response_tokens) of a call
TokenAmounts == {<<1, 1>>, <<2, 3>>}

LedgerRecord(pc, loaded, amounts, before) ==
    [op |-> "add_tokens", pc |-> pc, loaded |-> loaded, amounts |-> amounts, before |-> before]

InitLedger ==
    /\ cache = {}
    /\ disk = {}
    /\ token_counter \in {NewTokenCounter, add_tokens(NewTokenCounter, 1, 1)}
    /\ max_retries = DEFAULT_MAX_RETRIES
    /\ \E amounts \in [Threads -> TokenAmounts] :
          last = LedgerRecord([t \in Threads |-> "load_total"], [t \in Threads |-> 0],
                              amounts, token_counter)
    /\ input = <<>>

\* the thread moves to the next position, holding the value it read
Step(t, pc, value) ==
    last' = [last EXCEPT !.pc[t] = pc, !.loaded[t] = value]

\* line 43, self.total_tokens += total: the read
LoadTotal(t) ==
    /\ last.pc[t] = "load_total"
    /\ Step(t, "store_total", token_counter.total_tokens)
    /\ UNCHANGED <<cache, disk, token_counter, max_retries, input>>

\* line 43: the write
StoreTotal(t) ==
    /\ last.pc[t] = "store_total"
    /\ token_counter' = [token_counter EXCEPT
                            !.total_tokens = last.loaded[t] + last.amounts[t][1] + last.amounts[t][2]]
    /\ Step(t, "load_count", 0)
    /\ UNCHANGED <<cache, disk, max_retries, input>>

\* line 44, self.requests_count += 1: the read
LoadCount(t) ==
    /\ last.pc[t] = "load_count"
    /\ Step(t, "store_count", token_counter.requests_count)
    /\ UNCHANGED <<cache, disk, token_counter, max_retries, input>>

\* line 44: the write
StoreCount(t) ==
    /\ last.pc[t] = "store_count"
    /\ token_counter' = [token_counter EXCEPT !.requests_count = last.loaded[t] + 1]
    /\ Step(t, "append", 0)
    /\ UNCHANGED <<cache, disk, max_retries, input>>

\* lines 46-53: self.api_calls_log.append(log_entry), one list operation
AppendLog(t) ==
    /\ last.pc[t] = "append"
    /\ token_counter' = [token_counter EXCEPT
                            !.api_calls_log =
                                Append(@, [prompt_tokens |-> last.amounts[t][1],
                                           response_tokens |-> last.amounts[t][2],
                                           total_tokens |-> last.amounts[t][1] + last.amounts[t][2]])]
    /\ Step(t, "done", 0)
    /\ UNCHANGED <<cache, disk, max_retries, input>>

NextLedger ==
    \E t \in Threads :
        \/ LoadTotal(t)
        \/ StoreTotal(t)
        \/ LoadCount(t)
        \/ StoreCount(t)
        \/ AppendLog(t)

SpecLedger == InitLedger /\ [][NextLedger]_vars

\* the token total of thread t's call
CallTotal(t) == last.amounts[t][1] + last.amounts[t][2]

\* C23: when two calls that run concurrently on one instance have both
\* recorded their usage, total_tokens is the previous total plus the totals of
\* both calls, requests_count has grown by exactly 2 and the log holds the
\* entries of both calls.
LedgerSerialized ==
    (last.op = "add_tokens" /\ \A t \in Threads : last.pc[t] = "done") =>
        /\ token_counter.total_tokens = last.before.total_tokens + CallTotal(1) + CallTotal(2)
        /\ token_counter.requests_count = last.before.requests_count + 2
        /\ Len(token_counter.api_calls_log) = Len(last.before.api_calls_log) + 2
        /\ \A t \in Threads :
              \E i \in DOMAIN token_counter.api_calls_log :
                  /\ i > Len(last.before.api_calls_log)
                  /\ token_counter.api_calls_log[i].total_tokens = CallTotal(t)

(***************************************************************************)
(* The durable tier shared by processes.  Each writer is an AnalysisCache  *)
(* of its own over the same directory and performs one set; set opens the  *)
(* file with mode 'w', which creates it or cuts it to length 0, and        *)
(* json.dump and the close that follows write the text from offset 0 of    *)
(* the file as it is then.  Texts are sequences of lexemes and offsets     *)
(* count lexemes.  last holds, per writer, the position in set, the        *)
(* request and the in-process tier, and the latest get of a reader, which  *)
(* is an AnalysisCache that has just been constructed.                     *)
(***************************************************************************)
Writers == {1, 2}

SetCalls == [text : RequestTexts, kind : {STRENGTHS}, val : CachePayloads]

DurableRecord(pc, calls, memory, read) ==
    [op |-> "durable", pc |-> pc, calls |-> calls, memory |-> memory, read |-> read]

NoRead == [done |-> FALSE, text |-> <<>>, result |-> None]

InitDurable ==
    /\ cache = {}
    /\ disk = {}
    /\ token_counter = NewTokenCounter
    /\ max_retries = DEFAULT_MAX_RETRIES
    /\ \E calls \in [Writers -> SetCalls] :
          last = DurableRecord([w \in Writers |-> "set"], calls, [w \in Writers |-> {}], NoRead)
    /\ input = <<>>

KeyOf(call) == generate_key(call.text, call.kind)

\* the text of a file after new is written from offset 0 over old
Overwrite(old, new) ==
    IF Len(new) >= Len(old) THEN new ELSE new \o SubSeq(old, Len(new) + 1, Len(old))

\* lines 107-116: the entry is put in the writer's in-process tier and the
\* file is opened for writing
OpenForWrite(w) ==
    /\ last.pc[w] = "set"
    /\ disk' = Without(disk, KeyOf(last.calls[w])) \cup {[key |-> KeyOf(last.calls[w]), content |-> <<>>]}
    /\ last' = [last EXCEPT !.pc[w] = "dump",
                            !.memory[w] = {[key |-> KeyOf(last.calls[w]), val |-> last.calls[w].val]}]
    /\ UNCHANGED <<cache, token_counter, max_retries, input>>

\* lines 117-118: json.dump and the end of the with block
DumpAndClose(w) ==
    /\ last.pc[w] = "dump"
    /\ disk' = Without(disk, KeyOf(last.calls[w]))
                  \cup {[key |-> KeyOf(last.calls[w]),
                         content |-> Overwrite(Entry(disk, KeyOf(last.calls[w])).content,
                                               Dumps(last.calls[w].val))]}
    /\ last' = [last EXCEPT !.pc[w] = "done"]
    /\ UNCHANGED <<cache, token_counter, max_retries, input>>

\* get by a new instance, at any moment
ReaderGet ==
    /\ \E resume_text \in RequestTexts :
          last' = [last EXCEPT !.read = [done |-> TRUE, text |-> resume_text,
                                         result |-> CacheGet({}, disk, resume_text, STRENGTHS).result]]
    /\ UNCHANGED <<cache, disk, token_counter, max_retries, input>>

NextDurable ==
    \/ \E w \in Writers : OpenForWrite(w)
    \/ \E w \in Writers : DumpAndClose(w)
    \/ ReaderGet

SpecDurable == InitDurable /\ [][NextDurable]_vars

BothWritten == last.op = "durable" /\ \A w \in Writers : last.pc[w] = "done"

\* sets on different keys both persist completely
DifferentKeysPersist ==
    (BothWritten /\ KeyOf(last.calls[1]) # KeyOf(last.calls[2])) =>
        \A w \in Writers : Entry(disk, KeyOf(last.calls[w])).content = Dumps(last.calls[w].val)

\* sets on one key leave one of the two payloads in full
SameKeyLastWriterWins ==
    (BothWritten /\ KeyOf(last.calls[1]) = KeyOf(last.calls[2])) =>
        \E w \in Writers : Entry(disk, KeyOf(last.calls[w])).content = Dumps(last.calls[w].val)

\* a get returns a miss or a payload that was written, complete
ReadMissOrComplete ==
    (last.op = "durable" /\ last.read.done) =>
        \/ last.read.result = None
        \/ \E w \in Writers : /\ last.calls[w].text = last.read.text
                              /\ last.read.result = last.calls[w].val

\* C24: concurrent sets on different keys both persist completely; concurrent
\* sets on the same key leave the durable entry equal to exactly one of the
\* written payloads in full; a get that runs concurrently with a set returns a
\* miss or a complete payload, never a partial or mixed one.
DurableConcurrency ==
    /\ DifferentKeysPersist
    /\ SameKeyLastWriterWins
    /\ ReadMissOrComplete

(***************************************************************************)
(* Further claims about analyze_resume (Spec).                             *)
(***************************************************************************)
\* the inference call of the last analyze received an HTTP 200 reply
GotReply(l) == l.op = "analyze" /\ Len(l.calls) = 1 /\ l.calls[1].result # None

\* C25: analyze returns the 'No response ... Check connection' error only when
\* every attempt failed at transport level; when some attempt received an
\* HTTP 200 reply, an error, if any, is the 'not valid JSON' error that
\* carries the raw text.
FailureClasses ==
    (last.op = "analyze" /\ IsError(last.result)) =>
        /\ last.result = NoResponseError => ~GotReply(last)
        /\ GotReply(last) => last.result = NotValidJsonError(last.calls[1].result)

\* the ledger after analyze_resume(text, kind) that received reply, an HTTP
\* 200 reply text or None
LedgerAfter(tc, text, kind, reply) ==
    IF Truthy(reply)
    THEN add_tokens(tc, estimate_tokens(Prompt(kind, text)), estimate_tokens(reply.s))
    ELSE tc

\* C26 as amended: analyze updates the ledger exactly once, with the estimates
\* for the prompt and the reply, when its inference call returned a text that
\* is not empty, whether it then returns a success record or an error record;
\* it leaves the ledger unchanged on a cache hit and when the call returned
\* no text.
LedgerOncePerReply ==
    [][last'.op = "analyze" =>
          /\ Len(last'.calls) = 0 => token_counter' = token_counter
          /\ Len(last'.calls) = 1 =>
                token_counter' = LedgerAfter(token_counter, last'.text, last'.kind,
                                             last'.calls[1].result)
          /\ (Success(last') /\ Len(last'.calls) = 1) =>
                token_counter'.requests_count = token_counter.requests_count + 1
          /\ last'.result = NoResponseError => token_counter' = token_counter]_vars

\* analyze has returned the parse error for a reply and has counted the call
LedgerOncePerReplyWitness ==
    /\ last.op = "analyze"
    /\ GotReply(last)
    /\ last.result = NotValidJsonError(MkStr(ReplyProse))
    /\ last.requests_added = 1
    /\ token_counter.requests_count >= 1

\* C26: analyze updates the ledger exactly once when it returns a success
\* record obtained from a fresh inference call and leaves it unchanged when it
\* returns a cache hit or an error record.
LedgerOnlyOnSuccess ==
    last.op = "analyze" =>
        /\ (Success(last) /\ Len(last.calls) = 1) => last.requests_added = 1
        /\ (Len(last.calls) = 0 \/ IsError(last.result)) => last.requests_added = 0

(***************************************************************************)
(* Further claims about the orchestrator (SpecOrch) and the normalizer     *)
(* (SpecParse).                                                            *)
(***************************************************************************)
\* the inference invocations of an operation that returned a text
TextCalls(l) == Cardinality({i \in DOMAIN l.calls : Truthy(l.calls[i].result)})

\* C27: every inference invocation made through the orchestrator that returns
\* text increases requests_count by exactly one, in whichever operation it is
\* made.
LedgerCountsEveryCall ==
    last.op \notin {"none", "restart"} => last.requests_added = TextCalls(last)

\* C28: for every reply string the normalizer's result is a parsed object or
\* the raw-text sentinel, which is an object too; it is never a bare array,
\* number, string, boolean or null.
ParseObjectOrSentinel ==
    last.op = "parse" => IsDict(last.result)

\* the payload holds the raw_response field
HoldsSentinelField(v) == IsDict(v) /\ HasKey(v, RawResponse)

\* C29: after any sequence of orchestrator operations no entry of either
\* cache tier holds a payload with the raw_response field, that is a payload
\* derived from a reply that could not be parsed.
NoSentinelStored ==
    /\ \A e \in cache : ~HoldsSentinelField(e.val)
    /\ \A f \in disk : Loads(f.content).ok => ~HoldsSentinelField(Loads(f.content).v)

(***************************************************************************)
(* Further claims about the inference call (SpecRetry).                    *)
(***************************************************************************)
\* C30: whatever the kind of a failed attempt is (429, timeout, connection
\* error, other status, other exception), the delay slept between failed
\* attempt i, counted from 0, and attempt i + 1 is exactly 2^i, and nothing
\* else is slept between attempts.  sleeps lists the delays in the order they
\* are slept; a delay after the last attempt is slept only when that attempt,
\* the last one allowed, was answered with 429.
BackoffDoubles ==
    last.op = "call" =>
        /\ \A i \in 0..(last.calls[1].attempts - 2) :
              /\ input[i + 1].kind \in FailureKinds
              /\ last.calls[1].sleeps[i + 1] = 2^i
        /\ Len(last.calls[1].sleeps) \in {last.calls[1].attempts - 1, last.calls[1].attempts}
        /\ (last.calls[1].attempts > 0 /\ Len(last.calls[1].sleeps) = last.calls[1].attempts) =>
              /\ last.calls[1].attempts = max_retries
              /\ input[max_retries].kind = "http429"

\* three attempts failed in three different ways, with delays 1 and 2 in
\* between
BackoffDoublesWitness ==
    /\ last.op = "call"
    /\ max_retries = DEFAULT_MAX_RETRIES
    /\ input[1].kind = "http429"
    /\ input[2].kind = "connection_error"
    /\ input[3].kind = "http_error"
    /\ last.calls[1].attempts = 3
    /\ last.calls[1].sleeps = <<1, 2>>

(***************************************************************************)
(* get_overall_score alone and inside comprehensive_analysis: the answer   *)
(* of the service to the score prompt is drawn at the start.               *)
(***************************************************************************)
ScoreAlphabet == {"1", "0", "9", WS, "x"}

\* 1000 and 9x are no tokens, 100 is the first one
ReplyScoreLater == <<"1", "0", "0", "0", WS, "9", "x", WS, "1", "0", "0", WS, "9">>

ScoreReplies(n) ==
    TextsUpTo(ScoreAlphabet, n)
        \cup {ReplyScoreLater, <<"1", "0", "0", "0">>, <<"x", "1", "0", "0">>,
              <<MINUS, "9", "9", WS>>}

InitOverall ==
    /\ cache = {}
    /\ disk = {}
    /\ token_counter = NewTokenCounter
    /\ max_retries = DEFAULT_MAX_RETRIES
    /\ last = NoRecord
    /\ input \in {Failure("timeout")} \cup {Ok(r) : r \in ScoreReplies(MaxReplyLen)}

\* every attempt of the score call is answered with input
ScoreScript == ScriptOf(0, "timeout", input, max_retries)

GetOverallScore ==
    /\ last.op = "none"
    /\ \E o \in {get_overall_score(ScoreScript, max_retries)} :
           last' = Record("get_overall_score", TextA, <<>>, FALSE,
                          Outcome(o.value, cache, disk, token_counter, <<o.call>>, <<>>),
                          cache, disk, token_counter)
    /\ UNCHANGED <<cache, disk, token_counter, max_retries, input>>

ComprehensiveScored ==
    /\ last.op # "comprehensive_analysis"
    /\ \E use_cache \in BOOLEAN, reply \in {ReplyObject, ReplyStrengths} :
           \E o \in {comprehensive_analysis(cache, disk, token_counter, TextA, use_cache,
                                            ScriptOf(0, "timeout", Ok(reply), max_retries),
                                            ScoreScript, max_retries)} :
               Finish("comprehensive_analysis", TextA, COMPREHENSIVE, use_cache, o)

NextOverall == GetOverallScore \/ ComprehensiveScored

SpecOverall == InitOverall /\ [][NextOverall]_vars

\* the lexemes that hold no letter, digit or underscore
Separators == {Q, EQ, LB, RB, LK, RK, COLON, COMMA, WS, MINUS, FENCE, PATHSEP}

\* text[i..j] is a number of one or two digits, or 100, that stands alone
IsScoreToken(text, i, j) ==
    /\ i <= j
    /\ \A k \in i..j : text[k] \in Digits
    /\ i = 1 \/ text[i - 1] \in Separators
    /\ j = Len(text) \/ text[j + 1] \in Separators
    /\ \/ j - i <= 1
       \/ j - i = 2 /\ text[i] = "1" /\ text[i + 1] = "0" /\ text[j] = "0"

TokenValue(text, i, j) ==
    IF j = i THEN DigitVal(text[i])
    ELSE IF j = i + 1 THEN 10 * DigitVal(text[i]) + DigitVal(text[j])
    ELSE 100

ScoreTokens(text) ==
    {p \in (DOMAIN text) \X (DOMAIN text) : IsScoreToken(text, p[1], p[2])}

\* the value of the token that starts first, None without a token
FirstTokenValue(text) ==
    IF ScoreTokens(text) = {} THEN None
    ELSE LET p == CHOOSE q \in ScoreTokens(text) : \A r \in ScoreTokens(text) : q[1] <= r[1]
         IN  MkInt(TokenValue(text, p[1], p[2]))

IsScore(v) == v = None \/ \E k \in 0..100 : v = MkInt(k)

OVERALL_SCORE == <<"overall_score">>

\* C31: get_overall_score returns the first integer token in [0,100] of the
\* reply (a number of one or two digits, or 100, that stands alone), and None
\* when the call fails or the reply has no such token; the result is always
\* None or an integer in [0,100], and so is the overall_score of the record
\* comprehensive_analysis returns and of every comprehensive entry in either
\* cache tier.
OverallScoreExtraction ==
    /\ last.op = "get_overall_score" =>
          /\ IsScore(last.result)
          /\ input.kind # "ok" => last.result = None
          /\ input.kind = "ok" => last.result = FirstTokenValue(input.text)
    /\ (last.op = "comprehensive_analysis" /\ ~IsError(last.result)) =>
          /\ Len(last.calls) = 2 =>
                DictGet(last.result, OVERALL_SCORE, MkStr(<<>>))
                    = (IF input.kind = "ok" THEN FirstTokenValue(input.text) ELSE None)
          /\ IsScore(DictGet(last.result, OVERALL_SCORE, MkStr(<<>>)))
    /\ \A e \in cache : IsScore(DictGet(e.val, OVERALL_SCORE, MkStr(<<>>)))
    /\ \A f \in disk :
          /\ Loads(f.content).ok
          /\ IsScore(DictGet(Loads(f.content).v, OVERALL_SCORE, MkStr(<<>>)))

\* the reply to the score prompt was "1000 9x 100 9": the comprehensive record
\* and its entry in both tiers hold 100
OverallScoreExtractionWitness ==
    /\ last.op = "comprehensive_analysis"
    /\ input = Ok(ReplyScoreLater)
    /\ Len(last.calls) = 2
    /\ DictGet(last.result, OVERALL_SCORE, None) = MkInt(100)
    /\ \E e \in cache : DictGet(e.val, OVERALL_SCORE, None) = MkInt(100)
    /\ \E f \in disk : DictGet(Loads(f.content).v, OVERALL_SCORE, None) = MkInt(100)

(***************************************************************************)
(* comprehensive_analysis on an empty cache, once: the first reply is the  *)
(* text of an object drawn at the start, in which each of the four         *)
(* top-level fields is missing, an object or a list, with or without an    *)
(* error or raw_response field beside them.                                *)
(***************************************************************************)
WEAKNESSES == <<"weaknesses">>
SKILLS == <<"skills">>
SUGGESTIONS == <<"suggestions">>
TopLevelFields == <<STRENGTHS, WEAKNESSES, SKILLS, SUGGESTIONS>>

FieldShapes == {"missing", "object", "list"}

GivenObject == MkDict(<<Pair(<<"summary">>, MkStr(<<"s">>))>>)

\* the members of the reply for the shapes chosen, in the order of TopLevelFields
RECURSIVE MembersOf(_, _)
MembersOf(shapes, i) ==
    IF i > Len(TopLevelFields) THEN <<>>
    ELSE (CASE shapes[i] = "missing" -> <<>>
            [] shapes[i] = "object" -> <<Pair(TopLevelFields[i], GivenObject)>>
            [] shapes[i] = "list" -> <<Pair(TopLevelFields[i], MkList(<<>>))>>)
         \o MembersOf(shapes, i + 1)

ExtraMembers(extra) ==
    CASE extra = "none" -> <<>>
      [] extra = "error" -> <<Pair(ErrorKey, MkStr(<<"x">>))>>
      [] extra = "raw_response" -> <<Pair(RawResponse, MkStr(<<"x">>))>>

NotBlank(lexeme) == lexeme # WS

\* the object written without blanks between its tokens
DefaultsReplies ==
    {SelectSeq(Dumps(MkDict(ExtraMembers(extra) \o MembersOf(shapes, 1))), NotBlank) :
        shapes \in [1..4 -> FieldShapes], extra \in {"none", "error", "raw_response"}}

InitDefaults ==
    /\ cache = {}
    /\ disk = {}
    /\ token_counter = NewTokenCounter
    /\ max_retries = DEFAULT_MAX_RETRIES
    /\ last = NoRecord
    /\ input \in DefaultsReplies

ComprehensiveOnReply ==
    /\ last.op = "none"
    /\ \E use_cache \in BOOLEAN, score \in {Ok(ReplyNumber), Failure("timeout")} :
           \E o \in {comprehensive_analysis(cache, disk, token_counter, TextA, use_cache,
                                            ScriptOf(0, "timeout", Ok(input), max_retries),
                                            ScriptOf(0, "timeout", score, max_retries),
                                            max_retries)} :
               Finish("comprehensive_analysis", TextA, COMPREHENSIVE, use_cache, o)

SpecDefaults == InitDefaults /\ [][ComprehensiveOnReply]_vars

EmptyNormalized == MkDict(<<Pair(<<"summary">>, MkStr(<<>>)), Pair(<<"items">>, MkList(<<>>))>>)

EmptySkills ==
    MkDict(<<Pair(<<"summary">>, MkStr(<<>>)), Pair(<<"technical">>, MkList(<<>>)),
             Pair(<<"soft_skills">>, MkList(<<>>))>>)

EmptySuggestions ==
    MkDict(<<Pair(<<"summary">>, MkStr(<<>>)), Pair(<<"priority_improvements">>, MkList(<<>>))>>)

\* the record has the four fields, with the default in place of each one that
\* data lacks, and no error field
DefaultsFilled(data, result) ==
    /\ ~IsError(result)
    /\ \A i \in DOMAIN TopLevelFields : HasKey(result, TopLevelFields[i])
    /\ ~HasKey(data, STRENGTHS) => DictGet(result, STRENGTHS, None) = EmptyNormalized
    /\ ~HasKey(data, WEAKNESSES) => DictGet(result, WEAKNESSES, None) = EmptyNormalized
    /\ ~HasKey(data, SKILLS) => DictGet(result, SKILLS, None) = EmptySkills
    /\ ~HasKey(data, SUGGESTIONS) => DictGet(result, SUGGESTIONS, None) = EmptySuggestions

\* what the validation of lines 1142-1150 and the normalisers let through
Validated(data) ==
    /\ ~HasKey(data, ErrorKey)
    /\ ~(HasKey(data, RawResponse) /\ Cardinality(Keys(data)) = 1)
    /\ normalize_strengths(DictGet(data, STRENGTHS, MkDict(<<>>))).tag # "exception"
    /\ normalize_weaknesses(DictGet(data, WEAKNESSES, MkDict(<<>>))).tag # "exception"

BypassLeavesCache ==
    [][(last'.op = "analyze" /\ ~last'.use_cache) =>
          /\ Len(last'.calls) = 1
          /\ last'.calls[1].attempts >= 1
          /\ last'.sets = <<>>
          /\ cache' = cache
          /\ disk' = disk
          /\ DictGet(last'.result, CachedKey, None) = None]_vars

\* a bypassing call made the inference call and returned the fresh result
\* while both tiers held another result for the same request
BypassLeavesCacheWitness ==
    /\ last.op = "analyze"
    /\ ~last.use_cache
    /\ Len(last.calls) = 1
    /\ ~IsError(last.result)
    /\ HasEntry(cache, generate_key(last.text, last.kind))
    /\ HasEntry(disk, generate_key(last.text, last.kind))
    /\ Entry(cache, generate_key(last.text, last.kind)).val # last.result
    /\ Loads(Entry(disk, generate_key(last.text, last.kind)).content).v # last.result

(***************************************************************************)
(* comprehensive_analysis called up to MaxOps + 1 times, cached or         *)
(* bypassing the cache, with process restarts in between.                  *)
(***************************************************************************)
ComprehensiveRepeated ==
    /\ Len(input) < MaxOps + 1
    /\ \E use_cache \in BOOLEAN,
          script \in {ScriptOf(max_retries, "timeout", Failure("timeout"), max_retries),
                      ScriptOf(0, "timeout", Ok(ReplyObject), max_retries),
                      ScriptOf(0, "timeout", Ok(ReplyProse), max_retries)},
          score_script \in ScoreScripts(max_retries) :
           \E o \in {comprehensive_analysis(cache, disk, token_counter, TextA, use_cache, script,
                                            score_script, max_retries)} :
               Serve("comprehensive_analysis", TextA, COMPREHENSIVE, use_cache, o)

NextBypass == ComprehensiveRepeated \/ NewAnalyzer

SpecBypass == InitOrch /\ [][NextBypass]_vars

\* the step is a run of comprehensive_analysis
ComprehensiveStep == last'.op = "comprehensive_analysis" /\ Len(input') = Len(input) + 1

\* C34: comprehensive_analysis with use_cache = false makes the inference
\* call whether or not an entry exists and, when it succeeds, leaves its
\* result as the entry of the text in both cache tiers, in place of any
\* older one; a cached call that follows, directly or after a restart,
\* makes no inference call and returns the stored result flagged as cached.
BypassRefreshesEntry ==
    [][/\ (ComprehensiveStep /\ ~last'.use_cache) =>
            /\ last'.calls # <<>>
            /\ ~IsError(last'.result) =>
                  /\ Len(last'.calls) = 2
                  /\ StoredAsOneEntry
       /\ (ComprehensiveStep /\ last'.use_cache
           /\ HasEntry(disk, generate_key(TextA, COMPREHENSIVE))) =>
            /\ last'.calls = <<>>
            /\ HasEntry(cache, generate_key(TextA, COMPREHENSIVE)) =>
                  Entry(cache, generate_key(TextA, COMPREHENSIVE)).val
                      = Loads(Entry(disk, generate_key(TextA, COMPREHENSIVE)).content).v
            /\ last'.result
                   = DictPut(Loads(Entry(disk, generate_key(TextA, COMPREHENSIVE)).content).v,
                             CachedKey, MkBool(TRUE))
       /\ (/\ ComprehensiveStep /\ last'.use_cache
           /\ last.op = "comprehensive_analysis" /\ ~last.use_cache /\ ~IsError(last.result)) =>
            last'.result = DictPut(last.result, CachedKey, MkBool(TRUE))]_vars

\* three runs: two analyses were performed, the second one bypassing the
\* entry of the first, and the cached run after them returned the entry with
\* the score of the second analysis
BypassRefreshesEntryWitness ==
    /\ input = <<"comprehensive_analysis", "comprehensive_analysis", "comprehensive_analysis">>
    /\ last.use_cache
    /\ last.calls = <<>>
    /\ token_counter.requests_count = 2
    /\ DictGet(last.result, CachedKey, None) = MkBool(TRUE)
    /\ DictGet(last.result, OVERALL_SCORE, MkStr(<<>>)) = None
    /\ DictGet(Entry(cache, generate_key(TextA, COMPREHENSIVE)).val, OVERALL_SCORE, MkStr(<<>>))
           = None

(***************************************************************************)
(* Further claims about the skills-gap pipeline (SpecOrch).                *)
(***************************************************************************)
\* C35: in a run of analyze_skills_gap that starts with the skill extraction
\* and goes on to the gap computation (its last inference call), the
\* extraction has succeeded and stored its result, and an answered
\* industry-requirement lookup lies between the two, so that the run has
\* made at least three inference calls.
StagesPrecedeGapCompute ==
    [][(ExtractionRan /\ Len(last'.calls) >= 2) =>
          /\ last'.sets # <<>>
          /\ last'.sets[1].kind = DETAILED_SKILLS
          /\ ~IsError(last'.sets[1].val)
          /\ Len(last'.calls) >= 3
          /\ Truthy(last'.calls[Len(last'.calls) - 1].result)]_vars

(***************************************************************************)
(* Claims about what a failed analyze_resume leaves behind (Spec).         *)
(***************************************************************************)
\* C36: a run of analyze_resume with caching enabled that returns a record
\* with an error field has completed no cache.set and has left the durable
\* tier as it was, whatever the shape of the reply.
ErrorWritesNothing ==
    (last.op = "analyze" /\ last.use_cache /\ IsError(last.result)) =>
        (last.sets = <<>> /\ ~last.disk_changed)

\* C37: once the last attempt allowed has failed, whatever the kind of the
\* failure, no delay is slept after it: the delays slept are those between
\* the attempts, one fewer than the attempts made.
NoSleepAfterLastAttempt ==
    (last.op = "call" /\ max_retries > 0 /\ last.result = None) =>
        /\ last.calls[1].attempts = max_retries
        /\ Len(last.calls[1].sleeps) = max_retries - 1

(***************************************************************************)
(* Two AnalysisCache instances over one cache directory: cache maps each   *)
(* instance to its in-process tier, disk is the shared directory, input    *)
(* holds for each request the payload of the set completed last by either  *)
(* instance since the last clear.                                          *)
(***************************************************************************)
Instances == {"A", "B"}

SharedRecord(op, by, text, kind, result) ==
    [op |-> op, by |-> by, text |-> text, kind |-> kind, result |-> result]

InitShared ==
    /\ cache = [i \in Instances |-> {}]
    /\ disk = {}
    /\ token_counter = NewTokenCounter
    /\ max_retries = DEFAULT_MAX_RETRIES
    /\ last = SharedRecord("none", "A", <<>>, <<>>, None)
    /\ input = {}

SetBy(i) ==
    \E resume_text \in RequestTexts, result \in CachePayloads :
        \E w \in {CacheSet(cache[i], disk, resume_text, STRENGTHS, result)} :
            /\ cache' = [cache EXCEPT ![i] = w.cache]
            /\ disk' = w.disk
            /\ input' = Forget(input, resume_text, STRENGTHS)
                            \cup {[text |-> resume_text, kind |-> STRENGTHS, val |-> result]}
            /\ last' = SharedRecord("set", i, resume_text, STRENGTHS, None)
            /\ UNCHANGED <<token_counter, max_retries>>

GetBy(i) ==
    \E resume_text \in RequestTexts :
        \E g \in {CacheGet(cache[i], disk, resume_text, STRENGTHS)} :
            /\ cache' = [cache EXCEPT ![i] = g.cache]
            /\ last' = SharedRecord("get", i, resume_text, STRENGTHS, g.result)
            /\ UNCHANGED <<disk, token_counter, max_retries, input>>

ClearBy(i) ==
    \E w \in {CacheClear(cache[i], disk)} :
        /\ cache' = [cache EXCEPT ![i] = w.cache]
        /\ disk' = w.disk
        /\ input' = {}
        /\ last' = SharedRecord("clear", i, <<>>, <<>>, None)
        /\ UNCHANGED <<token_counter, max_retries>>

NextShared ==
    \E i \in Instances :
        \/ SetBy(i)
        \/ GetBy(i)
        \/ ClearBy(i)

SpecShared == InitShared /\ [][NextShared]_vars

\* C38: a get by either instance returns the payload of the latest set for
\* the same request made by either instance, and a miss when there was none
\* since the last clear by either instance.
CrossInstanceCoherence ==
    last.op = "get" =>
        IF \E h \in input : h.text = last.text /\ h.kind = last.kind
        THEN last.result = (CHOOSE h \in input : h.text = last.text /\ h.kind = last.kind).val
        ELSE last.result = None

(***************************************************************************)
(* One orchestrator instance run sequentially: the two operations that     *)
(* update the ledger, analyze_resume (through get_skills) and              *)
(* comprehensive_analysis, with process restarts in between.               *)
(***************************************************************************)
NextSequential == GetSkills \/ ComprehensiveAnalysis \/ NewAnalyzer

SpecSequential == InitOrch /\ [][NextSequential]_vars

RECURSIVE SumTotals(_)
SumTotals(log) == IF log = <<>> THEN 0 ELSE Head(log).total_tokens + SumTotals(Tail(log))

LedgerConsistent(tc) ==
    /\ tc.requests_count = Len(tc.api_calls_log)
    /\ tc.total_tokens = SumTotals(tc.api_calls_log)
    /\ \A i \in DOMAIN tc.api_calls_log :
          /\ tc.api_calls_log[i].total_tokens
                 = tc.api_calls_log[i].prompt_tokens + tc.api_calls_log[i].response_tokens
          /\ tc.api_calls_log[i].total_tokens >= 0

\* C39: in every state of an instance run sequentially requests_count is the
\* number of log entries and total_tokens the sum of the logged totals, and
\* no operation of the instance makes either of them smaller (the ledger of a
\* new instance starts again from zero).
LedgerConsistency ==
    [][/\ LedgerConsistent(token_counter)
       /\ LedgerConsistent(token_counter')
       /\ last'.op # "restart" =>
             /\ token_counter'.requests_count >= token_counter.requests_count
             /\ token_counter'.total_tokens >= token_counter.total_tokens
             /\ \A i \in DOMAIN token_counter.api_calls_log :
                   token_counter'.api_calls_log[i] = token_counter.api_calls_log[i]]_vars

\* get_skills and then comprehensive_analysis each added an entry: two
\* requests, two log entries, and their totals add up to total_tokens
LedgerConsistencyWitness ==
    /\ input = <<"get_skills", "comprehensive_analysis">>
    /\ token_counter.requests_count = 2
    /\ Len(token_counter.api_calls_log) = 2
    /\ token_counter.total_tokens > 0
    /\ token_counter.total_tokens
           = token_counter.api_calls_log[1].total_tokens
                 + token_counter.api_calls_log[2].total_tokens

(***************************************************************************)
(* score_resume when every call of self.llm.query raises, which is what    *)
(* happens with an LLMAnalyzer: the resume text and the target keywords    *)
(* are drawn, the three model calls fail.                                  *)
(***************************************************************************)
RECURSIVE RepeatText(_, _)
RepeatText(s, k) ==
    IF k = 0 THEN ""
    ELSE IF k = 1 THEN s
    ELSE RepeatText(s, k \div 2) \o RepeatText(s, k - k \div 2)

\* the five sections, seven action verbs, ten numbers, ten years, a bullet and
\* a technical keyword, in six blocks of lines
ResumeHead ==
    "Email: a at b.c\n\nSummary\nLed and managed 1 team\n\nExperience\n"
        \o "- directed 2 units\n- achieved 3 goals\n- delivered 4 tools\n"
        \o "- improved 5 flows\n- created 6 apps\n\nEducation\nDegree 7 and 8 and 9\n\n"
        \o "Skills\nPython for 10 years\n\n"

\* lines of filler words
FillerLines(lines, words) == RepeatText(RepeatText("w ", words) \o "\n", lines)

\* more than 400 words on more than 20 lines
FullResume == ResumeHead \o FillerLines(10, 40)

\* symbols only: no section, no verb, no number, no word structure
SymbolsOnly == "@@@@"

FallbackTexts ==
    ScoreResumeTexts \cup ScorerTexts
        \cup {FullResume, SymbolsOnly, ResumeHead, FillerLines(10, 25)}

FallbackKeywords == {<<>>, <<"Python", "Rust">>, <<"Python">>}

ScoreResumeWithoutModel ==
    /\ last.op = "none"
    /\ \E resume_text \in FallbackTexts, target_keywords \in FallbackKeywords :
          \E report \in {score_resume(resume_text, target_keywords, QueryRaises, QueryRaises,
                                      QueryRaises)} :
              last' = ScorerRecord("score_resume",
                                   [resume_text |-> resume_text,
                                    target_keywords |-> target_keywords,
                                    replies |-> <<QueryRaises, QueryRaises, QueryRaises>>],
                                   report)
    /\ UNCHANGED <<cache, disk, token_counter, max_retries, input>>

SpecFallback == InitScorer /\ [][ScoreResumeWithoutModel]_vars

\* C40: when every model call of the scorer fails, score_resume returns a
\* report with all five component scores (no exception leaves it), in which
\* content quality and experience lie in [30,70], formatting lies in [47,95]
\* and the overall score is at most 87, so that the classification is never
\* 'Excellent'.
FallbackScoresBounded ==
    last.op = "score_resume" =>
        /\ ~last.result.raised
        /\ Len(last.result.scores) = 5
        /\ last.result.scores[2] \in 30..70
        /\ last.result.scores[5] \in 30..70
        /\ last.result.scores[3] \in 47..95
        /\ last.result.overall_score <= 87
        /\ last.result.classification \in {"Good", "Average", "Needs Improvement"}

\* the full resume reaches every upper bound: content quality 70, formatting
\* 95, experience 70 and the overall score 87, classified 'Good'
FallbackScoresBoundedWitness ==
    /\ last.op = "score_resume"
    /\ last.args.resume_text = FullResume
    /\ last.args.replies = <<QueryRaises, QueryRaises, QueryRaises>>
    /\ last.result.scores = <<100, 70, 95, 100, 70>>
    /\ last.result.overall_score = 87
    /\ last.result.classification = "Good"

====
